---- MODULE Spec2Model ----
(***************************************************************************)
(* A state-machine model of nnstd/media-proxy: the multi-part upload       *)
(* coordinator (session tracker in Redis, part objects in the object       *)
(* store), the parts computation of InitializeUpload, request admission    *)
(* (path form and query form), sanitizeLocation, the read pipeline with   *)
(* its memory cache, object-store cache and pooled encode buffers, the     *)
(* range-aware video proxy and the single-request video upload.            *)
(*                                                                         *)
(* Strings the code takes apart or concatenates are sequences of           *)
(* one-character strings; sizes are in units of 1 MiB; times are in units  *)
(* of 24 hours; 64-bit signed integers are IntBits wide.                   *)
(***************************************************************************)
EXTENDS Integers, Sequences, FiniteSets, TLC

\* ------------------------------------------------------------------------
\* Bounds of the model
\* ------------------------------------------------------------------------
IntBits == 12          \* width of the model's "int64"
MaxTime == 2           \* the clock runs 0..MaxTime
MaxReq == 2            \* concurrent part-upload requests (while one session is created)
MaxInits == 2          \* init calls that succeed (while one request runs at a time)
MaxTotal == 3          \* largest total_size an init of the upload model asks for
MaxChunk == 2          \* largest chunkSize an init of the upload model asks for
SmallSize == 8         \* sizes 1..SmallSize are tried by the parts computation
MaxReaders == 2        \* concurrent read requests
MaxReads == 3          \* read requests started in one behaviour
MaxBufs == 2           \* bytes.Buffer objects the pool ever creates
MaxArrays == 3         \* backing arrays ever allocated for them
MaxOffset == 5         \* Range headers name the offsets and lengths 0..MaxOffset
MaxLocLen == 3         \* every location of up to MaxLocLen characters is sanitized
MaxValidators == 2     \* concurrent calls of pool.ValidateUrl
MaxValidations == 4    \* calls of pool.ValidateUrl started in one behaviour
MaxEdgeRequests == 2   \* GET requests passing through the middleware chain in one behaviour
MaxImageReads == 2     \* image reads in a row
MaxFrames == 3         \* frames in a video stream handed to the frame extraction
MaxBody == 6           \* request bodies of 0..MaxBody MiB meet the body limit

\* ------------------------------------------------------------------------
\* Program constants
\* ------------------------------------------------------------------------
\* 1024 * 1024 bytes, the unit of every size in the model
MiB == 1
\* DefaultChunkSize = 80 * 1024 * 1024
DefaultChunkSize == 80 * MiB
\* UploadTTL = 24 * time.Hour, in clock units of 24 hours
UploadTTL == 1

VARIABLES
    cfg,        \* config.Config and which collaborators main() constructed
    now,        \* time.Now()
    redis,      \* the state store: upload id -> <<>> or <<[data, exp, until]>>
    s3,         \* the object store: set of [loc, part, size, ct] part objects
    calc,       \* the latest parts computation of InitializeUpload
    adm,        \* the latest admission of a read request: request, answer, context
    san,        \* the latest call of sanitizeLocation: argument and result
    px,         \* the latest answer of the video proxy: request, status, headers, body
    vu,         \* the latest answer of POST /videos: request, status, object written
    uv,         \* pool.ValidateUrl: the URL-parse cache and the calls in flight
    ed,         \* the middleware chain of main(): the HTTP response cache and the GET passing through
    bl,         \* the latest request body met by the body limit of main()
    fx,         \* the latest call of extractFrameFromPosition: stream, position, result
    im,         \* the image reads: their number, the memory cache, the latest response
    iu,         \* the latest image upload request and its answer
    puts,       \* history: every part object PutAtLocationExpiring has written
    mem,        \* the memory cache: fingerprint -> <<>> or <<CacheValue>>
    heap,       \* the backing arrays of the pooled buffers: id -> bytes (<<>> = free)
    bufs,       \* the bytes.Buffer objects: id -> [made, arr], arr = 0 without an array
    pooled,     \* the buffers lying in pool.BufferPool
    objs,       \* the object-store bucket as reads see it: [loc, fp], each key -> <<>> or <<object>>
    jobs,       \* the object-store writes started with "go func()" and not yet done
    rd,         \* the read requests in flight, one record per slot
    nreads,     \* how many read requests have started
    served,     \* history: fingerprint -> the set of <<body, contentType>> answered with 200
    stored,     \* history: fingerprint -> <<>> or <<[body, ct]>> as SetWithTTL last received it
    req,        \* the part-upload requests in flight, one record per slot
    tokenCtr,   \* how many upload tokens crypto/rand has produced
    initLog,    \* history: the <<uploadId, uploadToken>> of every init answered 200
    acked,      \* history: the <<uploadToken, partIndex>> of every part answered 200
    resp,       \* the latest answer of an upload endpoint, where recorded
    lim         \* what this behaviour explores: [reqs, inits, obs], the numbers of
                \* concurrent requests and of sessions, and whether resp is recorded

uploadVars == <<cfg, lim, now, redis, s3, req, tokenCtr, initLog, acked, resp>>

\* what the upload endpoints never touch
cacheVars == <<mem, heap, bufs, pooled, objs, jobs, rd, nreads, served, stored>>

\* the latest results of the single-request endpoints and functions
\* the state of the process-wide helpers
\* the latest calls of the functions taken on their own, and the history
\* of the part writes
fnVars == <<fx, im, iu, puts>>

sideVars == <<uv, ed, bl, fnVars>>

\* the variables of the endpoints and helpers, the function calls apart
baseVars == <<cfg, lim, now, redis, s3, req, tokenCtr, initLog, acked, resp, calc, adm, san,
              px, vu, uv, ed, bl, mem, heap, bufs, pooled, objs, jobs, rd, nreads, served, stored,
              puts>>

stepVars == <<calc, adm, san, px, vu, sideVars>>

restVars == <<stepVars, cacheVars>>

vars == <<calc, adm, san, px, vu, sideVars, cacheVars, cfg, lim, now, redis, s3, req, tokenCtr, initLog, acked, resp>>

\* ------------------------------------------------------------------------
\* Integer arithmetic of the code
\* ------------------------------------------------------------------------
MaxInt64 == 2^(IntBits - 1) - 1

\* two's-complement wrap-around of int64 arithmetic
Wrap(x) ==
    LET m == 2^IntBits
        r == x % m
    IN  IF r >= 2^(IntBits - 1) THEN r - m ELSE r

\* Go's integer division truncates toward zero
TruncDiv(a, b) == IF a >= 0 THEN a \div b ELSE 0 - ((0 - a) \div b)

Min(a, b) == IF a <= b THEN a ELSE b

\* ------------------------------------------------------------------------
\* InitializeUpload: the parts of a session
\* ------------------------------------------------------------------------
\* partsCount := int((totalSize + chunkSize - 1) / chunkSize)
PartsCountOf(totalSize, chunkSize) ==
    TruncDiv(Wrap(totalSize + chunkSize - 1), chunkSize)

\* the loop that fills parts[0..partsCount-1]; parts[i] is PartsOf(..)[i+1]
RECURSIVE PartsLoop(_, _, _, _, _, _)
PartsLoop(i, partsCount, totalSize, chunkSize, offset, acc) ==
    IF i >= partsCount THEN acc
    ELSE LET partSize == IF i = partsCount - 1
                         THEN Wrap(totalSize - Wrap(i * chunkSize))
                         ELSE chunkSize
         IN  PartsLoop(i + 1, partsCount, totalSize, chunkSize,
                       Wrap(offset + partSize),
                       Append(acc, [index |-> i, offset |-> offset, size |-> partSize]))

PartsOf(totalSize, chunkSize) ==
    PartsLoop(0, PartsCountOf(totalSize, chunkSize), totalSize, chunkSize, 0, <<>>)

\* make([]UploadPart, partsCount) panics on a negative length
MakePanics(totalSize, chunkSize) == PartsCountOf(totalSize, chunkSize) < 0

\* ------------------------------------------------------------------------
\* The multi-part upload coordinator
\* ------------------------------------------------------------------------
Req == 1..MaxReq
\* the largest parts_count of a session of the model
MaxParts == (MaxTotal + MaxChunk - 1) \div MaxChunk
Times == 0..MaxTime

\* config.Token (APP_TOKEN)
AppToken == "app"
\* hex strings that crypto/rand yields, in the order it yields them
TokenNames == <<"tok1", "tok2", "tok3", "tok4", "tok5">>
\* every token a client may present
Tokens == {"", AppToken} \cup {TokenNames[i] : i \in 1..MaxInits}

Locations == {"a"}

\* a location that sanitizeLocation refuses
ParentLocation == "../a"

\* the characters of the location strings of the init calls
LocationText(l) == IF l = ParentLocation THEN <<".", ".", "/", "a">> ELSE <<l>>
VideoType == "video/mp4"

\* validation.IsVideoMime on the types of the model
IsVideoMime(ct) == ct = VideoType

\* a configuration with every collaborator constructed: uploads on with a
\* size limit of MaxTotal MB, an HMAC key, one allowed origin
DefaultCfg ==
    [UploadingEnabled |-> TRUE, tracker |-> TRUE, s3 |-> TRUE, Token |-> AppToken,
     MaxVideoSize |-> MaxTotal, ChunkSize |-> 0, HmacKey |-> "k", AllowedOrigins |-> {"u"},
     Webp |-> FALSE]

\* the configurations main() may build for the upload endpoints: all on,
\* uploading off, no Redis tracker, no object store
CfgSet ==
    { DefaultCfg,
      [DefaultCfg EXCEPT !.UploadingEnabled = FALSE],
      [DefaultCfg EXCEPT !.tracker = FALSE],
      [DefaultCfg EXCEPT !.s3 = FALSE] }

\* a free request slot
IdleReq ==
    [pc |-> "idle", uploadID |-> 0, partIndex |-> 0, file |-> <<>>, token |-> "",
     loc |-> "", ct |-> "", minfo |-> <<>>]

\* an answer: which endpoint, the status, and the complete, partsCount and
\* uploadedCount fields of the JSON body where the endpoint has them
NoResp == [kind |-> "", status |-> 0, complete |-> FALSE, partsCount |-> 0, uploadedCount |-> 0]

InitResp(code, partsCount) ==
    IF ~lim.obs THEN NoResp ELSE
    [kind |-> "init", status |-> code, complete |-> FALSE, partsCount |-> partsCount,
     uploadedCount |-> 0]

PartResp(code, complete) ==
    IF ~lim.obs THEN NoResp ELSE
    [kind |-> "part", status |-> code, complete |-> complete, partsCount |-> 0,
     uploadedCount |-> 0]

StatusResp(code, complete, partsCount, uploadedCount) ==
    IF ~lim.obs THEN NoResp ELSE
    [kind |-> "status", status |-> code, complete |-> complete, partsCount |-> partsCount,
     uploadedCount |-> uploadedCount]

\* r.client.Set(ctx, key, data, ttl): go-redis sets an expiry only for a
\* positive ttl; a record is <<[data, exp, until]>> with exp = <<>> (none) or
\* <<t>>, and until the instant now + ttl that the ttl handed over ends at
RedisSet(store, id, data, ttl) ==
    [store EXCEPT ![id] = <<[data |-> data,
                             exp |-> IF ttl > 0 THEN <<now + ttl>> ELSE <<>>,
                             until |-> now + ttl]>>]

\* is the key still there at the current time
RedisLive(store, id) ==
    /\ store[id] # <<>>
    /\ \/ store[id][1].exp = <<>>
       \/ now <= store[id][1].exp[1]

\* GetUploadInfo: <<>> for "upload not found or expired", else <<uploadInfo>>
GetUploadInfo(id) == IF RedisLive(redis, id) THEN <<redis[id][1].data>> ELSE <<>>

\* x occurs in the sequence s
InSeq(x, s) == \E k \in 1..Len(s) : s[k] = x

\* handleMultipartUploadInit answering without a session
InitReject(code) ==
    /\ resp' = InitResp(code, 0)
    /\ UNCHANGED <<restVars, cfg, lim, now, redis, s3, req, tokenCtr, initLog, acked>>

\* handleMultipartUploadInit with InitializeUpload, for one request
\* deadline and size are <<>> when the query parameter is missing
MultipartUploadInit(token, deadline, location, size, contentType, customChunk) ==
    IF ~cfg.UploadingEnabled THEN InitReject(403)
    ELSE IF ~cfg.tracker THEN InitReject(503)
    ELSE IF token = "" \/ token # cfg.Token THEN InitReject(403)
    ELSE IF deadline = <<>> THEN InitReject(400)
    ELSE IF now > deadline[1] THEN InitReject(403)
    ELSE IF location = "" THEN InitReject(400)
    ELSE IF size = <<>> THEN InitReject(400)
    ELSE IF size[1] <= 0 THEN InitReject(400)
    ELSE IF cfg.MaxVideoSize > 0 /\ size[1] > cfg.MaxVideoSize * MiB THEN InitReject(413)
    ELSE IF contentType = "" THEN InitReject(400)
    ELSE IF ~IsVideoMime(contentType) THEN InitReject(400)
    ELSE
      LET cfgChunk  == IF cfg.ChunkSize <= 0 THEN DefaultChunkSize ELSE cfg.ChunkSize
          chunkSize == IF customChunk > 0 THEN customChunk ELSE cfgChunk
          uploadID  == now
          totalSize == size[1]
          tok       == TokenNames[tokenCtr + 1]
          info      == [UploadID |-> uploadID, UploadToken |-> tok, Location |-> location,
                        TotalSize |-> totalSize, ChunkSize |-> chunkSize,
                        PartsCount |-> PartsCountOf(totalSize, chunkSize),
                        Parts |-> PartsOf(totalSize, chunkSize),
                        UploadedParts |-> <<>>, ContentType |-> contentType,
                        CreatedAt |-> now, ExpiresAt |-> deadline[1]]
          ttl       == Min(deadline[1] - now, UploadTTL)
      IN  /\ tokenCtr < lim.inits
          /\ tokenCtr' = tokenCtr + 1
          /\ IF MakePanics(totalSize, chunkSize)
             THEN /\ resp' = InitResp(500, 0)
                  /\ UNCHANGED <<redis, initLog>>
             ELSE /\ redis' = RedisSet(redis, uploadID, info, ttl)
                  /\ resp' = InitResp(200, info.PartsCount)
                  /\ initLog' = initLog \cup {<<uploadID, tok>>}
          /\ UNCHANGED <<restVars, cfg, lim, now, s3, req, acked>>

\* the query parameters of the init calls tried: every well-formed call,
\* and calls with one parameter missing or wrong
InitInputs ==
    { <<AppToken, <<d>>, l, <<n>>, VideoType, c>> :
        d \in Times, l \in Locations, n \in {MaxTotal - 1, MaxTotal, MaxTotal + 1},
        c \in {0, MaxChunk} }
    \cup { <<t, <<MaxTime>>, "a", <<1>>, VideoType, 0>> : t \in {"", "tok1"} }
    \cup { <<AppToken, <<>>, "a", <<1>>, VideoType, 0>>,
           <<AppToken, <<MaxTime>>, "", <<1>>, VideoType, 0>>,
           <<AppToken, <<MaxTime>>, "a", <<>>, VideoType, 0>>,
           <<AppToken, <<MaxTime>>, "a", <<0>>, VideoType, 0>> }
    \cup { <<AppToken, <<MaxTime>>, "a", <<1>>, ct, 0>> : ct \in {"", "image/png"} }
    \cup { <<AppToken, <<MaxTime>>, ParentLocation, <<1>>, VideoType, 0>> }

\* POST /videos/multiparts
UploadInit ==
    \E in \in InitInputs :
        MultipartUploadInit(in[1], in[2], in[3], in[4], in[5], in[6])

\* a part request answered at once with an error status
PartReject(r, code) ==
    /\ req' = [req EXCEPT ![r] = IdleReq]
    /\ resp' = PartResp(code, FALSE)
    /\ UNCHANGED <<restVars, cfg, lim, now, redis, s3, tokenCtr, initLog, acked>>

\* the checks with the size comparison left out
PartChecksNoSize(got, partIndex, file, token) ==
    IF ~cfg.UploadingEnabled THEN 403
    ELSE IF ~cfg.tracker THEN 503
    ELSE IF ~cfg.s3 THEN 503
    ELSE IF got = <<>> THEN 404
    ELSE IF token = "" \/ token # got[1].UploadToken THEN 403
    ELSE IF now > got[1].ExpiresAt THEN 403
    ELSE IF partIndex < 0 \/ partIndex >= got[1].PartsCount THEN 400
    ELSE IF file = <<>> THEN 400
    ELSE 0

\* the checks handleMultipartUploadPart makes, in its order, on the session
\* found (got) and the request: the status code of the first that fails, 0
\* if none does; file is <<>> without a "video" form file, <<size>> with one
PartChecks(got, partIndex, file, token) ==
    IF ~cfg.UploadingEnabled THEN 403
    ELSE IF ~cfg.tracker THEN 503
    ELSE IF ~cfg.s3 THEN 503
    ELSE IF got = <<>> THEN 404
    ELSE IF token = "" \/ token # got[1].UploadToken THEN 403
    ELSE IF now > got[1].ExpiresAt THEN 403
    ELSE IF partIndex < 0 \/ partIndex >= got[1].PartsCount THEN 400
    ELSE IF file = <<>> THEN 400
    ELSE IF file[1] # got[1].Parts[partIndex + 1].size THEN 400
    ELSE 0

\* handleMultipartUploadPart up to the object-store write: the lookup of the
\* session and every check made on the request
PartValidate(r, uploadID, partIndex, file, token) ==
    LET got == GetUploadInfo(uploadID)
        code == PartChecks(got, partIndex, file, token)
    IN  IF code # 0 THEN PartReject(r, code)
        ELSE /\ req' = [req EXCEPT ![r] = [IdleReq EXCEPT !.pc = "put", !.uploadID = uploadID,
                                                           !.partIndex = partIndex, !.file = file,
                                                           !.token = token,
                                                           !.loc = got[1].Location,
                                                           !.ct = got[1].ContentType]]
             /\ UNCHANGED <<restVars, cfg, lim, now, redis, s3, tokenCtr, initLog, acked, resp>>

\* POST /videos/multiparts/:uploadId/parts/:partIndex arriving on a free slot
\* (the slots are interchangeable: a request takes the lowest free one)
PartStart(r) ==
    /\ req[r].pc = "idle"
    /\ r <= lim.reqs
    /\ \A r2 \in Req : r2 < r => req[r2].pc # "idle"
    /\ \E uploadID \in Times,
          partIndex \in (0 - 1)..MaxParts,
          file \in {<<>>} \cup {<<n>> : n \in 1..MaxTotal},
          token \in Tokens :
            PartValidate(r, uploadID, partIndex, file, token)

\* the object PutAtLocationExpiring writes for a validated part
PartObject(q) ==
    [loc |-> q.loc, part |-> q.partIndex, size |-> q.file[1], ct |-> q.ct]

\* s3cache.PutAtLocationExpiring(partLocation, ...): the write replaces the
\* object at that key, or fails and the handler answers 500
PartPut(r) ==
    /\ req[r].pc = "put"
    /\ \/ /\ s3' = {o \in s3 : ~(o.loc = req[r].loc /\ o.part = req[r].partIndex)}
                     \cup {PartObject(req[r])}
          /\ puts' = puts \cup {PartObject(req[r])}
          /\ req' = [req EXCEPT ![r].pc = "markGet"]
          /\ UNCHANGED resp
       \/ /\ req' = [req EXCEPT ![r] = IdleReq]
          /\ resp' = PartResp(500, FALSE)
          /\ UNCHANGED <<s3, puts>>
    /\ UNCHANGED <<calc, adm, san, px, vu, uv, ed, bl, fx, im, iu, cacheVars>>
    /\ UNCHANGED <<cfg, lim, now, redis, tokenCtr, initLog, acked>>

\* MarkPartUploaded, first half: GetUploadInfo, the index check and the scan
\* of UploadedParts; the appended record waits in minfo for the Set
MarkGet(r) ==
    /\ req[r].pc = "markGet"
    /\ LET got == GetUploadInfo(req[r].uploadID)
           idx == req[r].partIndex
       IN  IF got = <<>> \/ idx < 0 \/ idx >= got[1].PartsCount
           THEN /\ req' = [req EXCEPT ![r] = IdleReq]
                /\ resp' = PartResp(500, FALSE)
           ELSE IF InSeq(idx, got[1].UploadedParts)
           THEN /\ req' = [req EXCEPT ![r].pc = "complete"]
                /\ UNCHANGED resp
           ELSE /\ req' = [req EXCEPT ![r].pc = "markSet",
                                      ![r].minfo = <<[got[1] EXCEPT !.UploadedParts = Append(@, idx)]>>]
                /\ UNCHANGED resp
    /\ UNCHANGED <<restVars, cfg, lim, now, redis, s3, tokenCtr, initLog, acked>>

\* MarkPartUploaded, second half: ttl := time.Until(ExpiresAt) and the Set
MarkSet(r) ==
    /\ req[r].pc = "markSet"
    /\ LET data == req[r].minfo[1]
           ttl  == data.ExpiresAt - now
       IN  IF ttl <= 0
           THEN /\ req' = [req EXCEPT ![r] = IdleReq]
                /\ resp' = PartResp(500, FALSE)
                /\ UNCHANGED redis
           ELSE /\ redis' = RedisSet(redis, req[r].uploadID, data, ttl)
                /\ req' = [req EXCEPT ![r].pc = "complete", ![r].minfo = <<>>]
                /\ UNCHANGED resp
    /\ UNCHANGED <<restVars, cfg, lim, now, s3, tokenCtr, initLog, acked>>

\* completeness taken without the part just marked
IsUploadCompleteWithoutOwnMark(id) ==
    LET got == GetUploadInfo(id)
    IN  IF got = <<>> THEN FALSE ELSE Len(got[1].UploadedParts) + 1 = got[1].PartsCount

\* IsUploadComplete: a lookup error is logged and leaves complete = false
IsUploadComplete(id) ==
    LET got == GetUploadInfo(id)
    IN  IF got = <<>> THEN FALSE ELSE Len(got[1].UploadedParts) = got[1].PartsCount

\* the 200 answer of handleMultipartUploadPart
PartComplete(r) ==
    /\ req[r].pc = "complete"
    /\ req' = [req EXCEPT ![r] = IdleReq]
    /\ resp' = PartResp(200, IsUploadComplete(req[r].uploadID))
    /\ acked' = acked \cup {<<req[r].token, req[r].partIndex>>}
    /\ UNCHANGED <<restVars, cfg, lim, now, redis, s3, tokenCtr, initLog>>

\* handleMultipartUploadStatus for the upload id and the token of the query
MultipartUploadStatus(uploadID, token) ==
    LET got == GetUploadInfo(uploadID)
    IN  /\ resp' = IF ~cfg.tracker THEN StatusResp(503, FALSE, 0, 0)
                   ELSE IF token = "" \/ token # cfg.Token THEN StatusResp(403, FALSE, 0, 0)
                   ELSE IF got = <<>> THEN StatusResp(404, FALSE, 0, 0)
                   ELSE StatusResp(200, Len(got[1].UploadedParts) = got[1].PartsCount,
                                   got[1].PartsCount, Len(got[1].UploadedParts))
        /\ UNCHANGED <<restVars, cfg, lim, now, redis, s3, req, tokenCtr, initLog, acked>>

\* GET /videos/multiparts/:uploadId
UploadStatus ==
    \E uploadID \in Times, token \in {"", AppToken, "tok1"} :
        MultipartUploadStatus(uploadID, token)

\* the clock advances
Tick ==
    /\ now < MaxTime
    /\ now' = now + 1
    /\ UNCHANGED <<restVars, cfg, lim, redis, s3, req, tokenCtr, initLog, acked, resp>>

\* ------------------------------------------------------------------------
\* The read pipeline: memory cache, object-store cache, pooled buffers
\* ------------------------------------------------------------------------
Readers == 1..MaxReaders

BufIds == 1..MaxBufs

ArrIds == 1..MaxArrays

\* the origin at URL "u" serves a video, the one at "ui" an image; the
\* bucket holds a video at location "a" and nothing at location "b"
VideoUrl == <<"u">>

ImageUrl == <<"u", "i">>

ImageType == "image/png"

ReadLocations == { <<"a">>, <<"b">> }

\* the bytes of the video stored at location "a", one name per offset
VideoBytes == <<"V", "W", "X", "Y">>

\* the read requests tried, as admission hands them on (ImageContext):
\* previews of the URL, of the location, of both; images of the URL
ReadParams ==
    { [kind |-> "preview", Url |-> u[1], CustomObjectKey |-> u[2], Quality |-> 100,
       Width |-> 0, Height |-> 0, Scale |-> 0, Interpolation |-> 5, Webp |-> w,
       FramePosition |-> f] :
        u \in { <<VideoUrl, <<>>>>, <<<<>>, <<"a">>>>, <<VideoUrl, <<"b">>>> },
        w \in BOOLEAN, f \in {"first", "last"} }
    \cup { [kind |-> "image", Url |-> ImageUrl, CustomObjectKey |-> <<>>, Quality |-> 100,
            Width |-> 0, Height |-> 0, Scale |-> 0, Interpolation |-> 5, Webp |-> w,
            FramePosition |-> "first"] : w \in BOOLEAN }

\* cacheKey(url, params): the fields it writes into the key, in its order
cacheKey(url, params) ==
    << url, params.Quality, params.Width, params.Height, params.Scale,
       params.Interpolation, params.Webp >>

\* the identifier processVideoPreview and processImageResponse key on
Identifier(params) ==
    IF params.kind = "preview" /\ params.Url = <<>> THEN params.CustomObjectKey ELSE params.Url

Fingerprints == { cacheKey(Identifier(p), p) : p \in ReadParams }

\* extractFrameFromPosition: the frame of the video at that position
extractFrameFromPosition(video, position) ==
    IF position = "first" THEN video \o <<"1">> ELSE video \o <<"2">>

\* jpeg.Encode / webp.Encode of a frame, webp.Encode of an image
EncodeFrame(frame, webp) == IF webp THEN frame \o <<"w">> ELSE frame \o <<"j">>

EncodeImage(image) == <<"w">>

\* what the encoding branch writes into its buffer for the request p
EncodedBody(p, frame) ==
    IF p.kind = "preview" THEN EncodeFrame(frame, p.Webp) ELSE EncodeImage(frame)

\* a []byte is a view [arr, len, own]: the first len bytes of the backing
\* array arr of a pooled buffer, or (arr = 0) bytes of its own
Own(bytes) == [arr |-> 0, len |-> Len(bytes), own |-> bytes]

View(a, n) == [arr |-> a, len |-> n, own |-> <<>>]

\* the bytes a []byte shows now
Bytes(b) == IF b.arr = 0 THEN b.own ELSE SubSeq(heap[b.arr], 1, b.len)

\* buf.Bytes() of a buffer whose n bytes lie in array a: a view of the array
BufBytes(a, n) == View(a, n)

IdleRd == [pc |-> "idle", params |-> <<>>, frame |-> <<>>, buf |-> 0]

NoObject == <<>>

\* the read pipeline after main() has built it
CacheStart ==
    /\ mem = [k \in Fingerprints |-> <<>>]
    /\ heap = [a \in ArrIds |-> <<>>]
    /\ bufs = [b \in BufIds |-> [made |-> FALSE, arr |-> 0]]
    /\ pooled = {}
    /\ objs = [loc |-> [l \in ReadLocations |->
                          IF l = <<"a">> THEN << [body |-> VideoBytes, ct |-> VideoType] >>
                          ELSE NoObject],
               fp |-> [k \in Fingerprints |-> NoObject]]
    /\ jobs = {}
    /\ rd = [r \in Readers |-> IdleRd]
    /\ nreads = 0
    /\ served = [k \in Fingerprints |-> {}]
    /\ stored = [k \in Fingerprints |-> <<>>]

\* c.Send(body) with status 200 and Content-Type ct, for the fingerprint k
Respond(k, body, ct) == served' = [served EXCEPT ![k] = @ \cup {<<body, ct>>}]

\* cache.SetWithTTL(k, CacheValue{Body: body, ContentType: ct})
SetWithTTL(k, body, ct) ==
    /\ mem' = [mem EXCEPT ![k] = << [Body |-> body, ContentType |-> ct] >>]
    /\ stored' = [stored EXCEPT ![k] = << [body |-> Bytes(body), ct |-> ct] >>]

\* a read request that ends without computing: an error status
ReadRefuse == UNCHANGED <<mem, stored, served, rd>>

\* processVideoPreview from its start to the frame extraction
PreviewStart(r, p) ==
    LET k == cacheKey(Identifier(p), p)
        atLoc == IF p.CustomObjectKey # <<>> THEN objs.loc[p.CustomObjectKey] ELSE NoObject
        fromLoc == p.CustomObjectKey # <<>> /\ cfg.s3
    IN  IF mem[k] # <<>>
        THEN /\ Respond(k, Bytes(mem[k][1].Body), mem[k][1].ContentType)
             /\ UNCHANGED <<mem, stored, rd>>
        ELSE IF cfg.s3 /\ atLoc # NoObject
        THEN /\ Respond(k, atLoc[1].body, atLoc[1].ct)
             /\ UNCHANGED <<mem, stored, rd>>
        ELSE IF cfg.s3 /\ objs.fp[k] # NoObject
        THEN /\ SetWithTTL(k, Own(objs.fp[k][1].body), objs.fp[k][1].ct)
             /\ Respond(k, objs.fp[k][1].body, objs.fp[k][1].ct)
             /\ UNCHANGED rd
        ELSE IF fromLoc /\ atLoc = NoObject THEN ReadRefuse
        ELSE IF fromLoc /\ ~IsVideoMime(atLoc[1].ct) THEN ReadRefuse
        ELSE IF ~fromLoc /\ p.Url = <<>> THEN ReadRefuse
        ELSE IF ~fromLoc /\ p.Url # VideoUrl THEN ReadRefuse
        ELSE /\ rd' = [rd EXCEPT ![r] =
                         [pc |-> "encode", params |-> p, buf |-> 0,
                          frame |-> extractFrameFromPosition(
                                        IF fromLoc THEN atLoc[1].body ELSE <<"U">>,
                                        p.FramePosition)]]
             /\ UNCHANGED <<mem, stored, served>>

\* processImageResponse and processImageData up to the WebP encoding
ImageStart(r, p) ==
    LET k == cacheKey(p.Url, p)
        imageData == <<"I">>
    IN  IF mem[k] # <<>>
        THEN /\ Respond(k, Bytes(mem[k][1].Body), mem[k][1].ContentType)
             /\ UNCHANGED <<mem, stored, rd>>
        ELSE IF p.Url # ImageUrl THEN ReadRefuse
        ELSE IF p.Quality = 100 /\ ~p.Webp /\ p.Width = 0 /\ p.Height = 0 /\ p.Scale = 0
        THEN /\ SetWithTTL(k, Own(imageData), ImageType)
             /\ Respond(k, imageData, ImageType)
             /\ UNCHANGED rd
        ELSE IF ~p.Webp
        THEN /\ SetWithTTL(k, Own(imageData), ImageType)
             /\ Respond(k, imageData, ImageType)
             /\ UNCHANGED rd
        ELSE /\ rd' = [rd EXCEPT ![r] = [pc |-> "encode", params |-> p, buf |-> 0,
                                         frame |-> imageData]]
             /\ UNCHANGED <<mem, stored, served>>

\* GET of an image or a video preview arriving on a free slot (the slots are
\* interchangeable: a request takes the lowest free one)
ReadStart(r) ==
    /\ rd[r].pc = "idle"
    /\ \A r2 \in Readers : r2 < r => rd[r2].pc # "idle"
    /\ nreads < MaxReads
    /\ nreads' = nreads + 1
    /\ \E p \in ReadParams :
         IF p.kind = "preview" THEN PreviewStart(r, p) ELSE ImageStart(r, p)
    /\ UNCHANGED <<heap, bufs, pooled, objs, jobs>>
    /\ UNCHANGED <<uploadVars, stepVars>>

\* the encoder's writes into the empty buffer b: in place while the bytes
\* fit its backing array, else into a newly allocated array a
BufferWrite(b, a, data) ==
    IF bufs[b].arr # 0 /\ Len(data) <= Len(heap[bufs[b].arr])
    THEN /\ a = bufs[b].arr
         /\ heap' = [heap EXCEPT ![a] = data \o SubSeq(@, Len(data) + 1, Len(@))]
         /\ bufs' = [bufs EXCEPT ![b].made = TRUE]
    ELSE /\ heap[a] = <<>>
         /\ \A a2 \in ArrIds : a2 < a => heap[a2] # <<>>
         /\ heap' = [heap EXCEPT ![a] = data]
         /\ bufs' = [bufs EXCEPT ![b] = [made |-> TRUE, arr |-> a]]

\* pool.GetBuffer(): a buffer lying in the pool, or a new one
GetBuffer(b) ==
    \/ b \in pooled
    \/ /\ ~bufs[b].made
       /\ \A r \in Readers : rd[r].buf # b
       /\ \A b2 \in BufIds : b2 < b => (bufs[b2].made \/ \E r \in Readers : rd[r].buf = b2)

\* the write started while the encoder has one byte still to write
WriteBackBeforeEncoded(p, k, data, ct) ==
    IF p.kind = "preview" /\ cfg.s3
    THEN { [loc |-> p.CustomObjectKey, fp |-> k,
            body |-> SubSeq(data, 1, Len(data) - 1), ct |-> ct] }
    ELSE {}

\* the writes the encoding branch starts with "go func()" once the encoded
\* bytes data lie in the buffer: s3cache.PutAtLocation / s3cache.Put of a
\* copy of them
WriteBack(p, k, data, ct) ==
    IF p.kind = "preview" /\ cfg.s3
    THEN { [loc |-> p.CustomObjectKey, fp |-> k, body |-> data, ct |-> ct] }
    ELSE {}

\* the encoding branch of processVideoPreview and processImageData: take a
\* buffer, encode into it, store buf.Bytes() in the memory cache, start the
\* object-store write of a copy, answer
ReadEncode(r) ==
    /\ rd[r].pc = "encode"
    /\ \E b \in BufIds, a \in ArrIds :
         LET p == rd[r].params
             k == cacheKey(Identifier(p), p)
             data == EncodedBody(p, rd[r].frame)
             ct == IF p.Webp THEN "image/webp" ELSE "image/jpeg"
         IN  /\ GetBuffer(b)
             /\ pooled' = pooled \ {b}
             /\ BufferWrite(b, a, data)
             /\ mem' = [mem EXCEPT ![k] = << [Body |-> BufBytes(a, Len(data)),
                                              ContentType |-> ct] >>]
             /\ stored' = [stored EXCEPT ![k] = << [body |-> data, ct |-> ct] >>]
             /\ jobs' = jobs \cup WriteBack(p, k, data, ct)
             /\ Respond(k, data, ct)
             /\ rd' = [rd EXCEPT ![r].pc = "release", ![r].buf = b]
    /\ UNCHANGED <<objs, nreads>>
    /\ UNCHANGED <<uploadVars, stepVars>>

\* the deferred pool.PutBuffer(buf): Reset, then back into the pool
ReadRelease(r) ==
    /\ rd[r].pc = "release"
    /\ pooled' = pooled \cup {rd[r].buf}
    /\ rd' = [rd EXCEPT ![r] = IdleRd]
    /\ UNCHANGED <<mem, heap, bufs, objs, jobs, nreads, served, stored>>
    /\ UNCHANGED <<uploadVars, stepVars>>

\* s3cache.PutAtLocation / s3cache.Put of a started write ending: the object
\* has reached the bucket, or PutObject has failed and the error is dropped
S3PutDone ==
    /\ \E j \in jobs :
         /\ jobs' = jobs \ {j}
         /\ \/ objs' = IF j.loc # <<>>
                       THEN [objs EXCEPT !.loc[j.loc] = << [body |-> j.body, ct |-> j.ct] >>]
                       ELSE [objs EXCEPT !.fp[j.fp] = << [body |-> j.body, ct |-> j.ct] >>]
            \/ objs' = objs
    /\ UNCHANGED <<mem, heap, bufs, pooled, rd, nreads, served, stored>>
    /\ UNCHANGED <<uploadVars, stepVars>>

\* the memory cache dropping an entry (TTL or cost)
CacheEvict ==
    /\ \E k \in Fingerprints :
         /\ mem[k] # <<>>
         /\ mem' = [mem EXCEPT ![k] = <<>>]
         /\ stored' = [stored EXCEPT ![k] = <<>>]
    /\ UNCHANGED <<heap, bufs, pooled, objs, jobs, rd, nreads, served>>
    /\ UNCHANGED <<uploadVars, stepVars>>

CacheNext ==
    \/ \E r \in Readers : ReadStart(r)
    \/ \E r \in Readers : ReadEncode(r)
    \/ \E r \in Readers : ReadRelease(r)
    \/ S3PutDone
    \/ CacheEvict

\* no read request admitted yet
NoAdm == [done |-> FALSE]

\* sanitizeLocation not called yet, no proxy request and no upload answered yet
NoSan == [done |-> FALSE]

NoPx == [done |-> FALSE]

NoVu == [done |-> FALSE]

\* A Range header is [unit, ranges]: "unit=" followed by the ranges
\* "first-last" separated by commas; NoRange is the absent header
NoRange == [unit |-> "", ranges |-> <<>>]

\* the ImageContext of a request that was not admitted
NoCtx == [Url |-> <<>>, CustomObjectKey |-> <<>>, Webp |-> FALSE, Quality |-> 0]

\* a response: status, Content-Type, Content-Range (<<>> without), body
EdgeResp(status, ct, range, body) ==
    [status |-> status, ct |-> ct, range |-> range, body |-> body]

NoEdgeResp == EdgeResp(0, "", <<>>, <<>>)

\* no GET in the chain
IdleRq ==
    [pc |-> "idle", fam |-> "", parts |-> <<>>, query |-> <<>>, h |-> NoRange,
     trace |-> <<>>, ctx |-> NoCtx, frame |-> <<>>, buf |-> 0, len |-> 0, wb |-> "",
     resp |-> NoEdgeResp]

\* no GET has passed the middleware chain: the HTTP response cache is empty
NoEd == [hc |-> {}, rq |-> IdleRq, n |-> 0, log |-> <<>>]

\* extractFrameFromPosition not called yet
NoFx == [done |-> FALSE]

\* no image has been read, the memory cache is empty
NoIm == [n |-> 0, cache |-> {}, out |-> [status |-> 0]]

\* no image upload has been asked for
NoIu == [done |-> FALSE]

\* no request body has arrived
NoBl == [done |-> FALSE]

Validators == 1..MaxValidators

\* a goroutine outside pool.ValidateUrl
IdleValidator ==
    [pc |-> "idle", url |-> <<>>, parsed |-> <<>>, hit |-> FALSE, out |-> <<>>]

\* the empty URL-parse cache, nobody validating
NoUv == [cache |-> {}, t |-> [v \in Validators |-> IdleValidator], calls |-> 0,
         evicted |-> FALSE]

NoCalc == [done |-> FALSE, totalSize |-> 0, chunkSize |-> 0, panicked |-> FALSE,
           partsCount |-> 0, parts |-> <<>>]

\* the state of the upload coordinator after main() has built it
UploadStart ==
    /\ now = 0
    /\ redis = [id \in Times |-> <<>>]
    /\ s3 = {}
    /\ req = [r \in Req |-> IdleReq]
    /\ tokenCtr = 0
    /\ initLog = {}
    /\ acked = {}
    /\ resp = NoResp
    /\ calc = NoCalc
    /\ adm = NoAdm
    /\ san = NoSan
    /\ px = NoPx
    /\ vu = NoVu
    /\ uv = NoUv
    /\ ed = NoEd
    /\ bl = NoBl
    /\ fx = NoFx
    /\ im = NoIm
    /\ iu = NoIu
    /\ puts = {}
    /\ CacheStart

UploadInitState ==
    /\ UploadStart
    /\ cfg \in CfgSet
    /\ lim \in { [reqs |-> MaxReq, inits |-> 1, obs |-> FALSE],
                 [reqs |-> 1, inits |-> MaxInits, obs |-> FALSE] }

\* the upload coordinator with its answers recorded
AnswersInitState ==
    /\ UploadStart
    /\ cfg \in CfgSet
    /\ lim = [reqs |-> 1, inits |-> 1, obs |-> TRUE]

UploadNext ==
    \/ UploadInit
    \/ \E r \in Req : PartStart(r)
    \/ \E r \in Req : PartPut(r)
    \/ \E r \in Req : MarkGet(r)
    \/ \E r \in Req : MarkSet(r)
    \/ \E r \in Req : PartComplete(r)
    \/ UploadStatus
    \/ Tick

Init == UploadInitState

Next == UploadNext

\* the upload coordinator under concurrent requests
Spec == Init /\ [][Next]_vars

\* the upload coordinator, one request at a time, with every answer recorded
SpecAnswers == AnswersInitState /\ [][Next]_vars

\* ------------------------------------------------------------------------
\* The parts computation on its own, over the whole width of the integers
\* ------------------------------------------------------------------------
\* total_size and chunk_size as init passes them on: both positive, small or
\* close to the largest int64
SizeInputs == (1..SmallSize) \cup ((MaxInt64 - 3)..MaxInt64)

\* InitializeUpload(totalSize, chunkSize): the parts it would store
InitializeUploadParts(totalSize, chunkSize) ==
    /\ calc' = IF MakePanics(totalSize, chunkSize)
               THEN [NoCalc EXCEPT !.done = TRUE, !.totalSize = totalSize,
                                   !.chunkSize = chunkSize, !.panicked = TRUE]
               ELSE [done |-> TRUE, totalSize |-> totalSize, chunkSize |-> chunkSize,
                     panicked |-> FALSE,
                     partsCount |-> PartsCountOf(totalSize, chunkSize),
                     parts |-> PartsOf(totalSize, chunkSize)]
    /\ UNCHANGED <<uploadVars, adm, san, px, vu, sideVars, cacheVars>>

\* sessions of more than SmallSize parts are left out
PartsNext ==
    \E totalSize \in SizeInputs, chunkSize \in SizeInputs :
        /\ (totalSize + chunkSize - 1) \div chunkSize <= SmallSize
        /\ InitializeUploadParts(totalSize, chunkSize)

PartsInit ==
    /\ UploadStart
    /\ cfg = [DefaultCfg EXCEPT !.MaxVideoSize = 0]
    /\ lim = [reqs |-> 0, inits |-> 0, obs |-> FALSE]

SpecParts == PartsInit /\ [][PartsNext]_vars

\* ------------------------------------------------------------------------
\* Admission of read requests (validation.go)
\* ------------------------------------------------------------------------
\* Text on the wire is a record [enc, key, body]: the base64url text of the
\* string body (B64), the hex text of HMAC-SHA256(key, body) (HexMac), text
\* that is neither (Junk), or the empty string (Empty).  Decoded strings are
\* sequences of one-character strings.
B64(str) == [enc |-> "b64", key |-> "", body |-> str]

HexMac(key, msg) == [enc |-> "hex", key |-> key, body |-> msg]

Junk == [enc |-> "junk", key |-> "", body |-> <<>>]

Empty == [enc |-> "", key |-> "", body |-> <<>>]

\* A number on the wire is [kind, n]: the decimal digits of n (Num), text
\* that is not a number (NaN), or nothing (NoText).
Num(n) == [kind |-> "num", n |-> n]

NaN == [kind |-> "junk", n |-> 0]

NoText == [kind |-> "", n |-> 0]

\* base64.URLEncoding.DecodeString: the string and whether decoding worked
DecodeBase64URL(w) ==
    IF w.enc = "b64" THEN [ok |-> TRUE, val |-> w.body]
    ELSE IF w.enc = "" THEN [ok |-> TRUE, val |-> <<>>]
    ELSE [ok |-> FALSE, val |-> <<>>]

DecodeURL(w) == DecodeBase64URL(w)

\* the comparison that leaves the secret out
CompareHmacIgnoresSecret(url, providedSignature, secret) ==
    /\ providedSignature.enc = "hex"
    /\ providedSignature.body = url

\* the comparison with every signature taken for good
CompareHmacAlwaysTrue(message, providedSignature, secret) == TRUE

\* hex-decode the signature and compare it with HMAC-SHA256(secret, message)
compareHmacForMessage(message, providedSignature, secret) ==
    /\ providedSignature.enc = "hex"
    /\ providedSignature.key = secret
    /\ providedSignature.body = message

compareHmac(url, providedSignature, secret) ==
    /\ providedSignature.enc = "hex"
    /\ providedSignature.key = secret
    /\ providedSignature.body = url

\* the characters sanitizeLocation lets through, as far as the model has them
LocationChars == {"a", "A", "0", "/", "-", "_", "."}

RECURSIVE TrimLeftSlash(_)
TrimLeftSlash(str) ==
    IF str # <<>> /\ Head(str) = "/" THEN TrimLeftSlash(Tail(str)) ELSE str

\* sanitizeLocation: the cleaned key and whether the location was accepted
sanitizeLocation(loc) ==
    IF Len(loc) = 0 \/ Len(loc) > 512 THEN [ok |-> FALSE, val |-> <<>>]
    ELSE IF (\E k \in 1..(Len(loc) - 1) : loc[k] = "." /\ loc[k + 1] = ".")
            \/ (\E k \in 1..Len(loc) : loc[k] = "\\")
         THEN [ok |-> FALSE, val |-> <<>>]
    ELSE IF \E k \in 1..Len(loc) : loc[k] \notin LocationChars
         THEN [ok |-> FALSE, val |-> <<>>]
    ELSE [ok |-> TRUE, val |-> TrimLeftSlash(loc)]

\* pool.ValidateUrl: with origins configured the URL's host (its first
\* character in the model) must be one of them
ValidateUrl(url, origins) == origins = {} \/ (url # <<>> /\ Head(url) \in origins)

\* a path segment is [colon, key, val]: "key:val" with a colon, else the
\* bare text val; the flag "webp" is the bare segment WebpFlag
WebpFlag == [enc |-> "webp", key |-> "", body |-> <<>>]

Seg(key, val) == [colon |-> TRUE, key |-> key, val |-> val]

Bare(val) == [colon |-> FALSE, key |-> "", val |-> val]

NoParams ==
    [EncodedURL |-> Empty, Signature |-> Empty, Location |-> Empty, Webp |-> FALSE,
     Quality |-> 100]

\* the loop of ParsePathParams over the segments that are parameters
RECURSIVE ParseLoop(_, _)
ParseLoop(parts, params) ==
    IF parts = <<>> THEN params
    ELSE LET part == Head(parts)
             next == IF part = Bare(WebpFlag) THEN [params EXCEPT !.Webp = TRUE]
                     ELSE IF ~part.colon THEN params
                     ELSE IF part.key \in {"sig", "signature"}
                          THEN [params EXCEPT !.Signature = part.val]
                     ELSE IF part.key \in {"loc", "location"}
                          THEN [params EXCEPT !.Location = part.val]
                     ELSE IF part.key \in {"q", "quality"}
                          THEN IF part.val.kind = "num" /\ part.val.n >= 1 /\ part.val.n <= 100
                               THEN [params EXCEPT !.Quality = part.val.n]
                               ELSE params
                     ELSE params
         IN  ParseLoop(Tail(parts), next)

\* ParsePathParams taking every last segment without a colon for the URL
ParsePathParamsNoWebpCheck(parts) ==
    LET lastPart == parts[Len(parts)]
    IN  IF ~lastPart.colon
        THEN ParseLoop(SubSeq(parts, 1, Len(parts) - 1),
                       [NoParams EXCEPT !.EncodedURL = lastPart.val])
        ELSE ParseLoop(parts, NoParams)

\* ParsePathParams on the segments of the path: a last segment without a
\* colon that is not "webp" is the encoded URL
ParsePathParams(parts) ==
    LET lastPart == parts[Len(parts)]
    IN  IF ~lastPart.colon /\ lastPart # Bare(WebpFlag)
        THEN ParseLoop(SubSeq(parts, 1, Len(parts) - 1),
                       [NoParams EXCEPT !.EncodedURL = lastPart.val])
        ELSE ParseLoop(parts, NoParams)

Refused(status) == [ok |-> FALSE, status |-> status, ctx |-> NoCtx]

Admitted(url, key, webp, quality) ==
    IF quality < 1 \/ quality > 100 THEN Refused(400)
    ELSE [ok |-> TRUE, status |-> 200,
          ctx |-> [Url |-> url, CustomObjectKey |-> key, Webp |-> webp, Quality |-> quality]]

\* ProcessImageContextFromPath, with quality and webp of the transformation
\* values
ProcessImageContextFromPath(parts) ==
    LET params == ParsePathParams(parts)
        durl == DecodeURL(params.EncodedURL)
        urlParam == IF params.EncodedURL # Empty THEN durl.val ELSE <<>>
        dloc == DecodeBase64URL(params.Location)
        sloc == sanitizeLocation(dloc.val)
        signedMsg == IF urlParam # <<>> THEN urlParam \o <<"|">> \o sloc.val ELSE sloc.val
        webp == params.Webp \/ cfg.Webp
    IN  IF params.EncodedURL # Empty /\ ~durl.ok THEN Refused(400)
        ELSE IF params.Location # Empty
        THEN IF cfg.HmacKey = "" \/ params.Signature = Empty THEN Refused(403)
             ELSE IF ~dloc.ok THEN Refused(400)
             ELSE IF ~sloc.ok THEN Refused(400)
             ELSE IF ~compareHmacForMessage(signedMsg, params.Signature, cfg.HmacKey)
                  THEN Refused(403)
             ELSE IF urlParam # <<>> /\ ~ValidateUrl(urlParam, cfg.AllowedOrigins)
                  THEN Refused(403)
             ELSE Admitted(urlParam, sloc.val, webp, params.Quality)
        ELSE IF params.Signature # Empty
        THEN IF cfg.HmacKey = "" THEN Refused(403)
             ELSE IF urlParam = <<>> THEN Refused(400)
             ELSE IF ~compareHmac(urlParam, params.Signature, cfg.HmacKey) THEN Refused(403)
             ELSE IF ~ValidateUrl(urlParam, cfg.AllowedOrigins) THEN Refused(403)
             ELSE Admitted(urlParam, <<>>, webp, params.Quality)
        ELSE IF urlParam = <<>> THEN Refused(400)
        ELSE IF ~ValidateUrl(urlParam, cfg.AllowedOrigins) THEN Refused(403)
        ELSE Admitted(urlParam, <<>>, webp, params.Quality)

\* c.QueryInt(key, defaultValue): the default when the text is no number
QueryInt(text, defaultValue) == IF text.kind = "num" THEN text.n ELSE defaultValue

\* c.QueryBool(key, defaultValue): the default when the text is no boolean
QueryBool(text, defaultValue) ==
    IF text = "true" THEN TRUE ELSE IF text = "false" THEN FALSE ELSE defaultValue

\* ProcessImageContext on the query parameters url, signature, location,
\* quality and webp
ProcessImageContext(urlParam, signature, location, qualityText, webpText) ==
    LET dloc == DecodeBase64URL(location)
        sloc == sanitizeLocation(dloc.val)
        signedMsg == urlParam \o <<"|">> \o sloc.val
        quality == QueryInt(qualityText, 100)
        webp == QueryBool(webpText, cfg.Webp)
    IN  IF urlParam = <<>> THEN Refused(400)
        ELSE IF location # Empty
        THEN IF cfg.HmacKey = "" \/ signature = Empty THEN Refused(403)
             ELSE IF ~dloc.ok THEN Refused(400)
             ELSE IF ~sloc.ok THEN Refused(400)
             ELSE IF ~compareHmacForMessage(signedMsg, signature, cfg.HmacKey)
                  THEN Refused(403)
             ELSE IF ~ValidateUrl(urlParam, cfg.AllowedOrigins) THEN Refused(403)
             ELSE Admitted(urlParam, sloc.val, webp, quality)
        ELSE IF signature # Empty
        THEN IF cfg.HmacKey = "" THEN Refused(403)
             ELSE IF ~compareHmac(urlParam, signature, cfg.HmacKey) THEN Refused(403)
             ELSE IF ~ValidateUrl(urlParam, cfg.AllowedOrigins) THEN Refused(403)
             ELSE Admitted(urlParam, <<>>, webp, quality)
        ELSE IF ~ValidateUrl(urlParam, cfg.AllowedOrigins) THEN Refused(403)
        ELSE Admitted(urlParam, <<>>, webp, quality)

\* the URLs, locations and signatures requests are built from
Urls == { <<"u">>, <<"v">> }

LocationTexts ==
    { Junk } \cup { B64(l) : l \in { <<"a">>, <<"/", "a">>, <<"/">>, <<".", ".">>, <<"a", "|">> } }

SignatureTexts ==
    { Junk, HexMac("x", <<"a">>), HexMac("x", <<"u">>) }
    \cup { HexMac("k", m) : m \in { <<"a">>, <<"u">>, <<"u", "|", "a">>, <<"v", "|", "a">> } }

UrlTexts == { Junk } \cup { B64(u) : u \in Urls }

\* zero or one segment
Opt(segs) == { <<>> } \cup { <<g>> : g \in segs }

\* the quality values requests carry: the ends of the range 1..100, the
\* values next to them outside it, and one inside
QualityTexts == { Num(0), Num(1), Num(50), Num(100), Num(101) }

\* the paths tried: each of quality, location, signature, "webp" and the
\* encoded URL at most once, the encoded URL last; the empty path is one
\* empty segment
PathInputs ==
    { IF p = <<>> THEN << Bare(Empty) >> ELSE p :
        p \in { q \o l \o g \o w \o u :
                  q \in Opt({ Seg("q", t) : t \in QualityTexts }),
                  l \in Opt({ Seg("loc", t) : t \in LocationTexts }),
                  g \in Opt({ Seg("sig", t) : t \in SignatureTexts }),
                  w \in Opt({ Bare(WebpFlag) }),
                  u \in Opt({ Bare(t) : t \in UrlTexts }) } }

\* GET /images/* and /videos/preview/*: admission of a path-form request
AdmitPath ==
    /\ ~adm.done
    /\ \E parts \in PathInputs :
         adm' = [done |-> TRUE, form |-> "path", parts |-> parts, url |-> <<>>,
                 signature |-> Empty, location |-> Empty, quality |-> NoText, webp |-> "",
                 parsed |-> ParsePathParams(parts),
                 out |-> ProcessImageContextFromPath(parts)]
    /\ UNCHANGED <<uploadVars, calc, san, px, vu, sideVars, cacheVars>>

\* GET /image and /video/preview: admission of a query-form request
AdmitQuery ==
    /\ ~adm.done
    /\ \E urlParam \in Urls \cup {<<>>},
          signature \in SignatureTexts \cup {Empty},
          location \in LocationTexts \cup {Empty},
          quality \in QualityTexts \cup {NoText},
          webp \in {"", "true", "false"} :
         adm' = [done |-> TRUE, form |-> "query", parts |-> <<>>, url |-> urlParam,
                 signature |-> signature, location |-> location,
                 quality |-> quality, webp |-> webp, parsed |-> NoParams,
                 out |-> ProcessImageContext(urlParam, signature, location, quality, webp)]
    /\ UNCHANGED <<uploadVars, calc, san, px, vu, sideVars, cacheVars>>

AdmissionNext == AdmitPath \/ AdmitQuery

AdmissionInit ==
    /\ UploadStart
    /\ cfg \in { DefaultCfg, [DefaultCfg EXCEPT !.HmacKey = ""] }
    /\ lim = [reqs |-> 0, inits |-> 0, obs |-> FALSE]

\* one read request passing admission
SpecAdmission == AdmissionInit /\ [][AdmissionNext]_vars

\* the locations handed to sanitizeLocation: every string of up to
\* MaxLocLen characters over SanAlphabet, and strings of 512 and 513 characters
SanAlphabet == {"a", "/", ".", "\\", "|"}

SanInputs ==
    UNION { [1..n -> SanAlphabet] : n \in 0..MaxLocLen }
    \cup { [i \in 1..512 |-> "a"], [i \in 1..513 |-> "a"] }

\* one call of sanitizeLocation
SanitizeCall ==
    /\ \E loc \in SanInputs :
         san' = [done |-> TRUE, loc |-> loc, out |-> sanitizeLocation(loc)]
    /\ UNCHANGED <<uploadVars, calc, adm, px, vu, sideVars, cacheVars>>

SanitizeNext == SanitizeCall

\* sanitizeLocation on its own
SpecSanitize == AdmissionInit /\ [][SanitizeNext]_vars

\* ------------------------------------------------------------------------
\* The single-request video upload (POST /videos)
\* ------------------------------------------------------------------------
DigitChars == <<"0", "1", "2", "3", "4", "5", "6", "7", "8", "9">>

\* the decimal text of a number below ten
Decimal(n) == << DigitChars[n + 1] >>

\* strconv.ParseInt(text, 10, 64) on texts of one character
ParseInt(text) ==
    IF Len(text) = 1 /\ \E n \in 0..9 : DigitChars[n + 1] = text[1]
    THEN Num(CHOOSE n \in 0..9 : DigitChars[n + 1] = text[1])
    ELSE NaN

UploadRefused(status) == [ok |-> FALSE, status |-> status, location |-> <<>>]

\* ValidateVideoUpload on the query parameters deadline, location, signature
ValidateVideoUpload(deadlineStr, locationEncoded, signature) ==
    LET deadline == ParseInt(deadlineStr)
        dloc == DecodeBase64URL(locationEncoded)
        sloc == sanitizeLocation(dloc.val)
        message == deadlineStr \o <<"|">> \o sloc.val
    IN  IF ~cfg.UploadingEnabled THEN UploadRefused(403)
        ELSE IF cfg.HmacKey = "" THEN UploadRefused(500)
        ELSE IF deadlineStr = <<>> THEN UploadRefused(400)
        ELSE IF deadline.kind # "num" THEN UploadRefused(400)
        ELSE IF now > deadline.n THEN UploadRefused(403)
        ELSE IF locationEncoded = Empty THEN UploadRefused(400)
        ELSE IF ~dloc.ok THEN UploadRefused(400)
        ELSE IF ~sloc.ok THEN UploadRefused(400)
        ELSE IF signature = Empty THEN UploadRefused(400)
        ELSE IF ~compareHmacForMessage(message, signature, cfg.HmacKey)
             THEN UploadRefused(403)
        ELSE [ok |-> TRUE, status |-> 200, location |-> sloc.val]

\* the checks of handleVideoUpload after validation: the status it answers
\* without writing, or 0; file is <<>> or <<[size, ct]>>
UploadChecks(file) ==
    IF ~cfg.s3 THEN 503
    ELSE IF file = <<>> THEN 400
    ELSE IF cfg.MaxVideoSize > 0 /\ file[1].size > cfg.MaxVideoSize * MiB THEN 413
    ELSE IF file[1].ct = "" THEN 400
    ELSE IF ~IsVideoMime(file[1].ct) THEN 400
    ELSE 0

\* the deadline, signature and file parts an upload request may carry
DeadlineTexts == { <<>>, <<"x">> } \cup { Decimal(t) : t \in Times }

UploadSignatures ==
    { Empty, Junk, HexMac("x", Decimal(1) \o <<"|", "a">>) }
    \cup { HexMac("k", Decimal(t) \o <<"|">> \o key) : t \in Times, key \in { <<"a">>, <<>> } }

UploadFiles ==
    { <<>> } \cup { << [size |-> n, ct |-> ct] >> :
                       n \in {1, MaxTotal + 1}, ct \in {"", VideoType, ImageType} }

\* POST /videos for one request: validation, the checks of the file, then
\* PutAtLocation, which stores the object or fails
VideoUpload(deadlineStr, locationEncoded, signature, file) ==
    LET v == ValidateVideoUpload(deadlineStr, locationEncoded, signature)
        code == IF ~v.ok THEN v.status ELSE UploadChecks(file)
        asked == [done |-> TRUE, at |-> now, deadline |-> deadlineStr,
                  location |-> locationEncoded, signature |-> signature,
                  status |-> code, wrote |-> <<>>]
    IN  IF code # 0
        THEN vu' = asked /\ s3' = s3
        ELSE \/ /\ s3' = {o \in s3 : o.loc # v.location}
                         \cup { [loc |-> v.location, part |-> -1,
                                 size |-> file[1].size, ct |-> file[1].ct] }
                /\ vu' = [asked EXCEPT !.status = 201, !.wrote = << v.location >>]
             \/ /\ s3' = s3
                /\ vu' = [asked EXCEPT !.status = 500]

\* POST /videos
handleVideoUpload ==
    /\ ~vu.done
    /\ \E deadlineStr \in DeadlineTexts, locationEncoded \in LocationTexts \cup {Empty},
          signature \in UploadSignatures, file \in UploadFiles :
         VideoUpload(deadlineStr, locationEncoded, signature, file)
    /\ UNCHANGED <<calc, adm, san, px, sideVars, cacheVars>>
    /\ UNCHANGED <<cfg, lim, now, redis, req, tokenCtr, initLog, acked, resp>>

VideoUploadNext == handleVideoUpload \/ Tick

VideoUploadInit ==
    /\ UploadStart
    /\ cfg \in { DefaultCfg, [DefaultCfg EXCEPT !.UploadingEnabled = FALSE],
                  [DefaultCfg EXCEPT !.HmacKey = ""], [DefaultCfg EXCEPT !.s3 = FALSE] }
    /\ lim = [reqs |-> 0, inits |-> 0, obs |-> FALSE]

\* one upload to POST /videos at some time
SpecVideoUpload == VideoUploadInit /\ [][VideoUploadNext]_vars

\* ------------------------------------------------------------------------
\* Admission of image uploads (validation.go)
\* ------------------------------------------------------------------------
ImageUploadRefused(status) == [ok |-> FALSE, status |-> status, key |-> <<>>]

\* ProcessImageUploadFromPath: token is the value of the segment t: or
\* token: ("" without one), parts are the other segments of the path
ProcessImageUploadFromPath(token, parts) ==
    LET params == ParsePathParams(parts)
        dloc == DecodeBase64URL(params.Location)
        sloc == sanitizeLocation(dloc.val)
    IN  IF params.Location # Empty /\ params.Signature # Empty
        THEN IF cfg.HmacKey = "" THEN ImageUploadRefused(500)
             ELSE IF ~dloc.ok THEN ImageUploadRefused(400)
             ELSE IF ~sloc.ok THEN ImageUploadRefused(400)
             ELSE IF ~compareHmacForMessage(sloc.val, params.Signature, cfg.HmacKey)
                  THEN ImageUploadRefused(403)
             ELSE IF params.Quality < 1 \/ params.Quality > 100 THEN ImageUploadRefused(400)
             ELSE [ok |-> TRUE, status |-> 200, key |-> sloc.val]
        ELSE IF token # cfg.Token THEN ImageUploadRefused(403)
        ELSE IF params.Quality < 1 \/ params.Quality > 100 THEN ImageUploadRefused(400)
        ELSE [ok |-> TRUE, status |-> 200, key |-> <<>>]

\* ProcessImageUpload on the query parameters token and quality
ProcessImageUpload(token, qualityText) ==
    LET quality == QueryInt(qualityText, 100)
    IN  IF token # cfg.Token THEN ImageUploadRefused(403)
        ELSE IF quality < 1 \/ quality > 100 THEN ImageUploadRefused(400)
        ELSE [ok |-> TRUE, status |-> 200, key |-> <<>>]

\* the tokens requests carry: none, the one of DefaultCfg, another
TokenTexts == {"", "app", "tok1"}

\* the upload paths tried besides the token: each of quality, location and
\* signature at most once; the empty path is one empty segment
UploadPaths ==
    { IF p = <<>> THEN << Bare(Empty) >> ELSE p :
        p \in { q \o l \o g :
                  q \in Opt({ Seg("q", Num(50)) }),
                  l \in Opt({ Seg("loc", t) : t \in LocationTexts }),
                  g \in Opt({ Seg("sig", t) : t \in SignatureTexts }) } }

\* POST /images/*: admission of a path-form upload
ImageUploadFromPath(token, parts) ==
    /\ ~iu.done
    /\ iu' = [done |-> TRUE, form |-> "path", token |-> token,
              location |-> ParsePathParams(parts).Location,
              signature |-> ParsePathParams(parts).Signature,
              out |-> ProcessImageUploadFromPath(token, parts)]
    /\ UNCHANGED <<baseVars, fx, im>>

ImageUploadPath == \E token \in TokenTexts, parts \in UploadPaths : ImageUploadFromPath(token, parts)

\* POST /image: admission of a query-form upload
ImageUploadQuery ==
    /\ ~iu.done
    /\ \E token \in TokenTexts, quality \in QualityTexts \cup {NoText} :
         iu' = [done |-> TRUE, form |-> "query", token |-> token, location |-> Empty,
                signature |-> Empty, out |-> ProcessImageUpload(token, quality)]
    /\ UNCHANGED <<baseVars, fx, im>>

ImageUploadNext == ImageUploadPath \/ ImageUploadQuery

\* APP_TOKEN and HMAC_KEY set or unset
ImageUploadInit ==
    /\ UploadStart
    /\ cfg \in { [DefaultCfg EXCEPT !.Token = t, !.HmacKey = h] :
                  t \in {"app", ""}, h \in {"k", ""} }
    /\ lim = [reqs |-> 0, inits |-> 0, obs |-> FALSE]

\* one image upload passing admission
SpecImageUpload == ImageUploadInit /\ [][ImageUploadNext]_vars

\* ------------------------------------------------------------------------
\* One signature presented to several operations
\* ------------------------------------------------------------------------
\* a read, an image upload, a video upload was admitted on its signature
ReadSigned == adm.done /\ adm.form = "path" /\ adm.out.ok /\ adm.parsed.Signature # Empty

UploadSigned == iu.done /\ iu.out.ok /\ iu.out.key # <<>>

VideoSigned == vu.done /\ vu.status = 201

\* the signatures that have admitted a request
AcceptedSignatures ==
    (IF ReadSigned THEN {adm.parsed.Signature} ELSE {})
    \cup (IF UploadSigned THEN {iu.signature} ELSE {})
    \cup (IF VideoSigned THEN {vu.signature} ELSE {})

NothingAsked == ~adm.done /\ ~iu.done /\ ~vu.done

\* the first request: a read, an image upload or a video upload
IssuedRead == NothingAsked /\ AdmitPath

IssuedImageUpload == NothingAsked /\ ImageUploadPath

IssuedVideoUpload == NothingAsked /\ handleVideoUpload

\* the read paths that carry the signature s
SignedPaths(s) ==
    { l \o << Seg("sig", s) >> \o u :
        l \in Opt({ Seg("loc", t) : t \in LocationTexts }),
        u \in Opt({ Bare(t) : t \in UrlTexts }) }

\* a signature that admitted a request comes again with a read
ReplayAsRead ==
    /\ ~adm.done
    /\ \E s \in AcceptedSignatures : \E parts \in SignedPaths(s) :
         adm' = [done |-> TRUE, form |-> "path", parts |-> parts, url |-> <<>>,
                 signature |-> Empty, location |-> Empty, quality |-> NoText, webp |-> "",
                 parsed |-> ParsePathParams(parts),
                 out |-> ProcessImageContextFromPath(parts)]
    /\ UNCHANGED <<uploadVars, calc, san, px, vu, sideVars, cacheVars>>

\* ... with an image upload
ReplayAsImageUpload ==
    \E s \in AcceptedSignatures, l \in Opt({ Seg("loc", t) : t \in LocationTexts }) :
        ImageUploadFromPath("", l \o << Seg("sig", s) >>)

\* ... with a video upload
ReplayAsVideoUpload ==
    /\ ~vu.done
    /\ \E s \in AcceptedSignatures, deadlineStr \in DeadlineTexts,
          locationEncoded \in LocationTexts, file \in UploadFiles :
         VideoUpload(deadlineStr, locationEncoded, s, file)
    /\ UNCHANGED <<calc, adm, san, px, sideVars, cacheVars>>
    /\ UNCHANGED <<cfg, lim, now, redis, req, tokenCtr, initLog, acked, resp>>

PurposesNext ==
    \/ IssuedRead
    \/ IssuedImageUpload
    \/ IssuedVideoUpload
    \/ ReplayAsRead
    \/ ReplayAsImageUpload
    \/ ReplayAsVideoUpload

\* a first request of any kind, then its signature with the other kinds
SpecPurposes == ImageUploadInit /\ [][PurposesNext]_vars

\* ------------------------------------------------------------------------
\* pool.ValidateUrl: the URL-parse cache and the origin allow-list (url.go)
\* ------------------------------------------------------------------------
\* urlCacheSize of url.go, 1000 there
urlCacheSize == 2

\* A URL string is [bad, scheme, host, port]: scheme "://" host port, or a
\* text url.Parse returns an error for (bad).  host is a sequence of
\* one-character strings, port is <<>> or ":" and a digit.
UrlText(scheme, host, port) == [bad |-> FALSE, scheme |-> scheme, host |-> host, port |-> port]

BadUrlText == [bad |-> TRUE, scheme |-> "", host |-> <<>>, port |-> <<>>]

\* strings.ToLower on the schemes of the model
ToLower(scheme) == IF scheme = "HTTP" THEN "http" ELSE scheme

\* url.Parse: <<>> for an error, else <<[Scheme, Host]>> with the scheme in
\* lower case and Host the host with its port
UrlParse(text) ==
    IF text.bad THEN <<>>
    ELSE << [Scheme |-> ToLower(text.scheme), Host |-> text.host \o text.port] >>

\* (*url.URL).Hostname: Host without the port
RECURSIVE Hostname(_)
Hostname(host) ==
    IF host = <<>> \/ Head(host) = ":" THEN <<>>
    ELSE << Head(host) >> \o Hostname(Tail(host))

\* wildcard.Match(pattern, s) of go-wildcard v2: "*" matches any run of
\* characters, "?" none or one character, "." exactly one character
RECURSIVE Match(_, _)
Match(pattern, str) ==
    IF pattern = <<>> THEN str = <<>>
    ELSE IF Head(pattern) = "*"
         THEN Match(Tail(pattern), str) \/ (str # <<>> /\ Match(pattern, Tail(str)))
    ELSE IF Head(pattern) = "?"
         THEN Match(Tail(pattern), str) \/ (str # <<>> /\ Match(Tail(pattern), Tail(str)))
    ELSE IF Head(pattern) = "."
         THEN str # <<>> /\ Match(Tail(pattern), Tail(str))
    ELSE str # <<>> /\ Head(str) = Head(pattern) /\ Match(Tail(pattern), Tail(str))

\* strings.Contains(origin, "*")
HasStar(origin) == \E k \in 1..Len(origin) : origin[k] = "*"

\* ValidateHostname with the scheme test left out
ValidateHostnameAnyScheme(parsedUrl, origins) ==
    LET hostname == Hostname(parsedUrl.Host)
    IN  IF origins = {} THEN [valid |-> TRUE, hostname |-> <<>>]
        ELSE IF \E origin \in origins : origin = hostname
             THEN [valid |-> TRUE, hostname |-> hostname]
        ELSE IF \E origin \in origins : HasStar(origin) /\ Match(origin, hostname)
             THEN [valid |-> TRUE, hostname |-> hostname]
        ELSE [valid |-> FALSE, hostname |-> <<>>]

\* ValidateHostname(parsedUrl, origins): (valid, hostname)
ValidateHostname(parsedUrl, origins) ==
    LET hostname == Hostname(parsedUrl.Host)
    IN  IF origins = {} THEN [valid |-> TRUE, hostname |-> <<>>]
        ELSE IF parsedUrl.Scheme # "http" /\ parsedUrl.Scheme # "https"
             THEN [valid |-> FALSE, hostname |-> <<>>]
        ELSE IF \E origin \in origins : origin = hostname
             THEN [valid |-> TRUE, hostname |-> hostname]
        ELSE IF \E origin \in origins : HasStar(origin) /\ Match(origin, hostname)
             THEN [valid |-> TRUE, hostname |-> hostname]
        ELSE [valid |-> FALSE, hostname |-> <<>>]

\* the goroutines holding urlCacheMux: for reading, for writing
ReadHolders == { v \in Validators : uv.t[v].pc = "rlocked" }

WriteHolders == { v \in Validators : uv.t[v].pc \in {"evict", "insert"} }

\* the URL strings validated and the allow-lists configured
SourceUrls ==
    { UrlText("http", <<"a", ".", "b">>, <<>>),
      UrlText("https", <<"a", ".", "b">>, <<":", "8">>),
      UrlText("HTTP", <<"a", "x", "b">>, <<>>),
      UrlText("ftp", <<"a", ".", "b">>, <<>>),
      UrlText("", <<"b">>, <<>>),
      BadUrlText }

AllowLists ==
    { {},
      { <<"a", ".", "b">> },
      { <<"a", "?", "b">> },
      { <<"*", ".", "b">>, <<"c">> },
      { <<"*", "a", ".", "b">> } }

\* ValidateUrl is called; urlCacheMux.RLock() waits for a writer to leave
UrlRLock(v) ==
    /\ uv.t[v].pc \in {"idle", "done"}
    /\ uv.calls < MaxValidations
    /\ WriteHolders = {}
    /\ \E urlStr \in SourceUrls :
         uv' = [uv EXCEPT !.t[v] = [IdleValidator EXCEPT !.pc = "rlocked", !.url = urlStr],
                          !.calls = @ + 1]
    /\ UNCHANGED <<uploadVars, calc, adm, san, px, vu, ed, bl, fnVars, cacheVars>>

\* the lookup in urlCache and RUnlock
UrlLookup(v) ==
    /\ uv.t[v].pc = "rlocked"
    /\ LET found == { e \in uv.cache : e.url = uv.t[v].url }
       IN  IF found # {}
           THEN uv' = [uv EXCEPT !.t[v].pc = "hostname", !.t[v].hit = TRUE,
                                 !.t[v].parsed = << (CHOOSE e \in found : TRUE).parsed >>]
           ELSE uv' = [uv EXCEPT !.t[v].pc = "parse"]
    /\ UNCHANGED <<uploadVars, calc, adm, san, px, vu, ed, bl, fnVars, cacheVars>>

\* url.Parse on a miss: an error ends the call with (false, "")
UrlParseStep(v) ==
    /\ uv.t[v].pc = "parse"
    /\ LET parsedUrl == UrlParse(uv.t[v].url)
       IN  IF parsedUrl = <<>>
           THEN uv' = [uv EXCEPT !.t[v].pc = "done",
                                 !.t[v].out = << [valid |-> FALSE, hostname |-> <<>>] >>]
           ELSE uv' = [uv EXCEPT !.t[v].pc = "wlock", !.t[v].parsed = parsedUrl]
    /\ UNCHANGED <<uploadVars, calc, adm, san, px, vu, ed, bl, fnVars, cacheVars>>

\* urlCacheMux.Lock() waits for every reader and writer to leave
UrlWLock(v) ==
    /\ uv.t[v].pc = "wlock"
    /\ ReadHolders = {} /\ WriteHolders = {}
    /\ uv' = [uv EXCEPT !.t[v].pc = "evict"]
    /\ UNCHANGED <<uploadVars, calc, adm, san, px, vu, ed, bl, fnVars, cacheVars>>

\* the write section without the eviction
UrlEvictNever(v) ==
    /\ uv.t[v].pc = "evict"
    /\ uv' = [uv EXCEPT !.t[v].pc = "insert"]
    /\ UNCHANGED <<uploadVars, calc, adm, san, px, vu, ed, bl, fnVars, cacheVars>>

\* if len(urlCache) >= urlCacheSize { urlCache = make(...) }
UrlEvict(v) ==
    /\ uv.t[v].pc = "evict"
    /\ IF Cardinality(uv.cache) >= urlCacheSize
       THEN uv' = [uv EXCEPT !.t[v].pc = "insert", !.cache = {}, !.evicted = TRUE]
       ELSE uv' = [uv EXCEPT !.t[v].pc = "insert"]
    /\ UNCHANGED <<uploadVars, calc, adm, san, px, vu, ed, bl, fnVars, cacheVars>>

\* urlCache[urlStr] = parsedUrl and Unlock
UrlInsert(v) ==
    /\ uv.t[v].pc = "insert"
    /\ uv' = [uv EXCEPT !.t[v].pc = "hostname",
                        !.cache = { e \in @ : e.url # uv.t[v].url }
                                  \cup { [url |-> uv.t[v].url, parsed |-> uv.t[v].parsed[1]] }]
    /\ UNCHANGED <<uploadVars, calc, adm, san, px, vu, ed, bl, fnVars, cacheVars>>

\* return ValidateHostname(parsedUrl, origins, logger)
UrlHostname(v) ==
    /\ uv.t[v].pc = "hostname"
    /\ uv' = [uv EXCEPT !.t[v].pc = "done",
                        !.t[v].out = << ValidateHostname(uv.t[v].parsed[1], cfg.AllowedOrigins) >>]
    /\ UNCHANGED <<uploadVars, calc, adm, san, px, vu, ed, bl, fnVars, cacheVars>>

UrlNext ==
    \E v \in Validators :
        \/ UrlRLock(v)
        \/ UrlLookup(v)
        \/ UrlParseStep(v)
        \/ UrlWLock(v)
        \/ UrlEvict(v)
        \/ UrlInsert(v)
        \/ UrlHostname(v)

UrlInit ==
    /\ UploadStart
    /\ cfg \in { [DefaultCfg EXCEPT !.AllowedOrigins = origins] : origins \in AllowLists }
    /\ lim = [reqs |-> 0, inits |-> 0, obs |-> FALSE]

\* concurrent calls of pool.ValidateUrl
SpecUrl == UrlInit /\ [][UrlNext]_vars

\* ------------------------------------------------------------------------
\* extractFrameFromPosition: the frame at "half" or at a time (image.go)
\* ------------------------------------------------------------------------
\* times are counted in units of 1/UnitsPerSecond seconds
UnitsPerSecond == 20

\* timeToleranceSeconds = 0.1
timeToleranceSeconds == UnitsPerSecond \div 10

\* the distances 5.0, 2.0 and 0.5 seconds of the frame skipping
FarFromTarget == 5 * UnitsPerSecond

AwayFromTarget == 2 * UnitsPerSecond

RecentlyProcessed == UnitsPerSecond \div 2

abs(x) == IF x < 0 THEN 0 - x ELSE x

\* calculateTargetTime for "half" (half the duration) and for a time in
\* seconds; a position is [kind, n] with n the duration or the time
calculateTargetTime(position) ==
    IF position.kind = "half"
    THEN IF position.n > 0 THEN [ok |-> TRUE, t |-> position.n \div 2]
         ELSE [ok |-> FALSE, t |-> 0]
    ELSE IF position.n >= 0 THEN [ok |-> TRUE, t |-> position.n]
    ELSE [ok |-> FALSE, t |-> 0]

\* the variables of the read loop before the first packet; frames are named
\* by their index in the stream, 0 is nil
LoopStart ==
    [lastValidFrame |-> 0, closestFrame |-> 0, closestTimeDiff |-> 0 - 1,
     passedTarget |-> FALSE, lastProcessedTime |-> 0, stop |-> FALSE]

\* one pass of the read loop, on the frame i of the stream: a frame is
\* [t, data], its time and whether it carries data
LoopBody(v, frames, i, position, targetTime) ==
    LET currentTime == frames[i].t
        timeDiff == abs(currentTime - targetTime)
        passed == v.passedTarget \/ (targetTime > 0 /\ currentTime > targetTime)
        v1 == [v EXCEPT !.passedTarget = passed, !.lastProcessedTime = currentTime,
                        !.lastValidFrame = IF @ = 0 THEN i ELSE @]
        closer == v.closestFrame = 0 \/ timeDiff < v.closestTimeDiff
        v2 == IF closer THEN [v1 EXCEPT !.closestFrame = i, !.closestTimeDiff = timeDiff] ELSE v1
    IN  IF ~frames[i].data THEN v
        ELSE IF targetTime > 0 /\ timeDiff > FarFromTarget /\ v.closestFrame = 0 THEN v
        ELSE IF targetTime > 0 /\ v.closestFrame # 0 /\ timeDiff > v.closestTimeDiff
                /\ timeDiff < timeToleranceSeconds
             THEN [v EXCEPT !.stop = TRUE]
        ELSE IF targetTime > 0 /\ v.lastProcessedTime > 0 /\ timeDiff > AwayFromTarget
                /\ abs(currentTime - v.lastProcessedTime) < RecentlyProcessed
             THEN [v EXCEPT !.passedTarget = passed]
        ELSE IF targetTime <= 0 THEN v1
        ELSE IF closer /\ position.kind = "half" /\ timeDiff < timeToleranceSeconds
             THEN [v2 EXCEPT !.stop = TRUE]
        ELSE IF passed /\ v2.closestFrame # 0 /\ timeDiff > v2.closestTimeDiff
             THEN [v2 EXCEPT !.stop = TRUE]
        ELSE v2

\* the read loop from the frame i on, until a break or the end of the stream
RECURSIVE ReadLoop(_, _, _, _, _)
ReadLoop(v, frames, i, position, targetTime) ==
    IF i > Len(frames) \/ v.stop THEN v
    ELSE ReadLoop(LoopBody(v, frames, i, position, targetTime), frames, i + 1, position,
                  targetTime)

\* extractFrameFromPosition for "half" and for a time: the index of the frame
\* returned, or an error
ExtractFrame(frames, position) ==
    LET target == calculateTargetTime(position)
        v == ReadLoop(LoopStart, frames, 1, position, target.t)
    IN  IF ~target.ok THEN [ok |-> FALSE, frame |-> 0]
        ELSE IF v.closestFrame # 0 THEN [ok |-> TRUE, frame |-> v.closestFrame]
        ELSE IF v.lastValidFrame # 0 THEN [ok |-> TRUE, frame |-> v.lastValidFrame]
        ELSE [ok |-> FALSE, frame |-> 0]

\* the frame times tried, in units: 0, 0.05, 0.15, 0.4, 0.8 and 2.5 seconds
FrameTimes == {0, 1, 3, 8, 16, 50}

\* the streams tried: up to MaxFrames frames at ascending times, each with
\* data or without
Streams ==
    { fr \in UNION { [1..n -> [t : FrameTimes, data : BOOLEAN]] : n \in 1..MaxFrames } :
        \A i \in 1..(Len(fr) - 1) : fr[i].t < fr[i + 1].t }

\* the positions tried: "half" of a duration of 0.2, 0.8 and 5 seconds, and
\* the times 0, 0.1, 0.15, 3 and 8 seconds
Positions ==
    { [kind |-> "half", n |-> d] : d \in {4, 16, 100} }
    \cup { [kind |-> "time", n |-> t] : t \in {0, 2, 3, 60, 160} }

\* one call of extractFrameFromPosition
ExtractCall ==
    /\ ~fx.done
    /\ \E frames \in Streams, position \in Positions :
         fx' = [done |-> TRUE, frames |-> frames, position |-> position,
                out |-> ExtractFrame(frames, position)]
    /\ UNCHANGED <<baseVars, im, iu>>

ExtractNext == ExtractCall

\* extractFrameFromPosition on its own
SpecExtract == AdmissionInit /\ [][ExtractNext]_vars

\* ------------------------------------------------------------------------
\* The image read: processImageResponse and processImageData (image.go)
\* ------------------------------------------------------------------------
\* the media types IsImageMime admits
imageMimeTypes ==
    { "image/jpeg", "image/png", "image/webp", "image/gif", "image/bmp", "image/tiff",
      "image/avif", "application/pdf", "application/epub+zip",
      "application/x-mobipocket-ebook",
      "application/vnd.openxmlformats-officedocument.wordprocessingml.document",
      "application/vnd.openxmlformats-officedocument.spreadsheetml.sheet",
      "application/vnd.openxmlformats-officedocument.presentationml.presentation" }

IsImageMime(mimeType) == mimeType \in imageMimeTypes

\* the media types readImage has a case for
Decoders ==
    { "image/jpeg", "image/png", "image/gif", "image/bmp", "image/tiff", "image/webp",
      "application/pdf", "application/epub+zip", "application/x-mobipocket-ebook",
      "application/vnd.openxmlformats-officedocument.wordprocessingml.document",
      "application/vnd.openxmlformats-officedocument.spreadsheetml.sheet",
      "application/vnd.openxmlformats-officedocument.presentationml.presentation" }

\* the Content-Type headers the source answers with: none, plain types, one
\* with a parameter, one that is not a media type
SourceHeaders ==
    { "", "image/png", "image/png; charset=binary", "image/avif", "application/pdf",
      "video/mp4", "image/" }

\* mime.ParseMediaType on these headers: the type without its parameters, an
\* error when no subtype follows the slash
ParseMediaType(h) ==
    IF h = "image/" THEN [ok |-> FALSE, type |-> ""]
    ELSE IF h = "image/png; charset=binary" THEN [ok |-> TRUE, type |-> "image/png"]
    ELSE [ok |-> TRUE, type |-> h]

\* the bytes of a source, and the bytes the WebP encoder makes of an image
\* that was decoded from a source, resized and rescaled
Raw(b) == [enc |-> "raw", of |-> b, quality |-> 0, width |-> 0, height |-> 0, scale |-> 0]

WebpOf(img, quality) ==
    [enc |-> "webp", of |-> img.of, quality |-> quality, width |-> img.width,
     height |-> img.height, scale |-> img.scale]

\* readImage: an image when the type has a case and its decoder accepts the
\* bytes (decodes), else an error
readImage(imageData, contentType, decodes) ==
    IF contentType \in Decoders /\ decodes
    THEN [ok |-> TRUE, img |-> [of |-> imageData.of, width |-> 0, height |-> 0, scale |-> 0]]
    ELSE [ok |-> FALSE, img |-> <<>>]

resizeImage(img, width, height) == [img EXCEPT !.width = width, !.height = height]

rescaleImage(img, scale) == [img EXCEPT !.scale = scale]

\* an answer of the image read: store says whether it is put in the cache
ImageAnswer(status, ct, body, decoded, store) ==
    [status |-> status, ct |-> ct, body |-> body, decoded |-> decoded, store |-> store,
     cached |-> FALSE]

ImageError(status, decoded) == ImageAnswer(status, "text/plain", Raw(""), decoded, FALSE)

\* the variant of processImageData that encodes in every branch
processImageDataAlwaysEncodes(params, imageData, contentType, decodes) ==
    LET read == readImage(imageData, contentType, decodes)
        sized == IF params.Width > 0 \/ params.Height > 0
                 THEN resizeImage(read.img, params.Width, params.Height) ELSE read.img
        scaled == IF params.Scale > 0 THEN rescaleImage(sized, params.Scale) ELSE sized
    IN  IF ~read.ok THEN ImageError(500, TRUE)
        ELSE ImageAnswer(200, "image/webp", WebpOf(scaled, params.Quality), TRUE, TRUE)

\* processImageData
processImageData(params, imageData, contentType, decodes) ==
    LET read == readImage(imageData, contentType, decodes)
        sized == IF params.Width > 0 \/ params.Height > 0
                 THEN resizeImage(read.img, params.Width, params.Height) ELSE read.img
        scaled == IF params.Scale > 0 THEN rescaleImage(sized, params.Scale) ELSE sized
    IN  IF params.Quality = 100 /\ ~params.Webp /\ params.Width = 0 /\ params.Height = 0
           /\ params.Scale = 0
        THEN ImageAnswer(200, contentType, imageData, FALSE, TRUE)
        ELSE IF ~read.ok THEN ImageError(500, TRUE)
        ELSE IF params.Webp
        THEN ImageAnswer(200, "image/webp", WebpOf(scaled, params.Quality), TRUE, TRUE)
        ELSE ImageAnswer(200, contentType, imageData, TRUE, TRUE)

\* the part of processImageResponse behind the cache: the fetch of the
\* source (src is its header and its bytes; decodes, whether they decode)
FetchAndProcess(params, fetched, src, decodes) ==
    LET parsed == ParseMediaType(src.header)
    IN  IF ~fetched THEN ImageError(500, FALSE)
        ELSE IF src.header = "" THEN ImageError(403, FALSE)
        ELSE IF ~parsed.ok THEN ImageError(500, FALSE)
        ELSE IF ~IsImageMime(parsed.type) THEN ImageError(403, FALSE)
        ELSE processImageData(params, src.body, parsed.type, decodes)

\* the image reads tried: all of the URL "ui", with no transformation, a
\* width, a height or a scale, each at two qualities, with and without webp
ImageParams ==
    { [Url |-> ImageUrl, Quality |-> q, Width |-> d[1], Height |-> d[2], Scale |-> d[3],
       Interpolation |-> 5, Webp |-> w] :
        q \in {80, 100}, d \in { <<0, 0, 0>>, <<10, 0, 0>>, <<0, 10, 0>>, <<0, 0, 2>> },
        w \in BOOLEAN }

\* no source was asked
NoSource == [header |-> "", body |-> Raw("")]

\* what the source may answer
Sources ==
    { [header |-> h, body |-> Raw(b)] : h \in SourceHeaders, b \in {"b1", "b2"} }

\* the cache entry under a key
CacheEntry(key) == { e \in im.cache : e.key = key }

\* cache.SetWithTTL of processImageData: the entry replaces the one under the key
ImageCacheSet(key, body, ct) ==
    { e \in im.cache : e.key # key } \cup { [key |-> key, body |-> body, ct |-> ct] }

\* processImageResponse: one image read
ImageRead ==
    /\ im.n < MaxImageReads
    /\ \E params \in ImageParams :
         LET key == cacheKey(params.Url, params)
             hit(e) == [ImageAnswer(200, e.ct, e.body, FALSE, FALSE) EXCEPT !.cached = TRUE]
                       @@ [params |-> params, src |-> NoSource, fetched |-> FALSE]
             failed == ImageError(500, FALSE)
                       @@ [params |-> params, src |-> NoSource, fetched |-> FALSE]
         IN  IF CacheEntry(key) # {}
             THEN \E e \in CacheEntry(key) : im' = [im EXCEPT !.n = @ + 1, !.out = hit(e)]
             ELSE \/ im' = [im EXCEPT !.n = @ + 1, !.out = failed]
                  \/ \E src \in Sources, decodes \in BOOLEAN :
                       LET ans == FetchAndProcess(params, TRUE, src, decodes)
                       IN  im' = [n |-> im.n + 1,
                                  cache |-> IF ans.store
                                            THEN ImageCacheSet(key, ans.body, ans.ct)
                                            ELSE im.cache,
                                  out |-> ans @@ [params |-> params, src |-> src,
                                                  fetched |-> TRUE]]
    /\ UNCHANGED <<baseVars, fx, iu>>

\* the previews tried: of a video at the same URL, at quality 80
PreviewsOfUrl == { p \in ImageParams : p.Quality = 80 /\ p.Width = 0 /\ p.Height = 0 /\ p.Scale = 0 }

\* processVideoPreview puts the preview of a video at the same URL and with
\* the same parameters into the same cache
PreviewCached ==
    /\ im.n < MaxImageReads
    /\ \A e \in im.cache : e.body.of # "frame"
    /\ \E params \in PreviewsOfUrl :
         /\ CacheEntry(cacheKey(params.Url, params)) = {}
         /\ im' = [im EXCEPT !.cache =
                      ImageCacheSet(cacheKey(params.Url, params), Raw("frame"),
                                    IF params.Webp THEN "image/webp" ELSE "image/jpeg")]
    /\ UNCHANGED <<baseVars, fx, iu>>

ImageNext == ImageRead \/ PreviewCached

\* the image reads on their own
SpecImage == AdmissionInit /\ [][ImageNext]_vars

\* ------------------------------------------------------------------------
\* The body limit main() configures the server with (main.go)
\* ------------------------------------------------------------------------
\* bodyLimit as main() computes it, in bytes; cfg.ChunkSize is in bytes (here
\* in units of MiB), cfg.MaxVideoSize in MB
BodyLimit ==
    IF ~cfg.UploadingEnabled THEN 4 * MiB
    ELSE IF cfg.ChunkSize > 0 THEN cfg.ChunkSize + 1 * MiB
    ELSE IF cfg.MaxVideoSize > 0 THEN cfg.MaxVideoSize * MiB
    ELSE 100 * MiB

\* a request whose body has size bytes arrives: the server refuses a body
\* larger than its BodyLimit before any handler runs
BodyArrive ==
    /\ \E size \in 0..MaxBody :
         bl' = [done |-> TRUE, size |-> size, limit |-> BodyLimit,
                accepted |-> size <= BodyLimit]
    /\ UNCHANGED <<uploadVars, calc, adm, san, px, vu, uv, ed, fnVars, cacheVars>>

BodyNext == BodyArrive

\* the settings main() may read from the environment
BodyInit ==
    /\ UploadStart
    /\ cfg \in { [DefaultCfg EXCEPT !.UploadingEnabled = e, !.ChunkSize = c, !.MaxVideoSize = m] :
                    e \in BOOLEAN, c \in 0..MaxChunk, m \in 0..MaxTotal }
    /\ lim = [reqs |-> 0, inits |-> 0, obs |-> FALSE]

\* request bodies meeting the body limit
SpecBodyLimit == BodyInit /\ [][BodyNext]_vars

CacheInit ==
    /\ UploadStart
    /\ cfg \in { DefaultCfg, [DefaultCfg EXCEPT !.s3 = FALSE] }
    /\ lim = [reqs |-> 0, inits |-> 0, obs |-> FALSE]

\* read requests running through the caches
SpecCache == CacheInit /\ [][CacheNext]_vars

\* ------------------------------------------------------------------------
\* The range-aware video proxy (GET /videos/*)
\* ------------------------------------------------------------------------
RangeError == [start |-> 0, end |-> -1, hasRange |-> FALSE, err |-> TRUE]

RangeOf(start, end, hasRange) ==
    [start |-> start, end |-> end, hasRange |-> hasRange, err |-> FALSE]

\* parseRangeHeader(h): start, end (-1 = to the end), hasRange, error
parseRangeHeader(h) ==
    IF h = NoRange THEN RangeOf(0, -1, FALSE)
    ELSE IF h.unit # "bytes" THEN RangeError
    ELSE IF Len(h.ranges) > 1 THEN RangeError
    ELSE IF Len(h.ranges) = 0 THEN RangeError
    ELSE LET first == h.ranges[1].first
             last == h.ranges[1].last
         IN  IF first = NoText
             THEN IF last.kind # "num" THEN RangeError
                  ELSE RangeOf(0 - last.n, -1, TRUE)
             ELSE IF first.kind # "num" THEN RangeError
             ELSE IF last = NoText THEN RangeOf(first.n, -1, TRUE)
             ELSE IF last.kind # "num" THEN RangeError
             ELSE RangeOf(first.n, last.n, TRUE)

\* minio.GetObjectOptions as the handler fills it: no range, or [start, end]
NoOpts == [ranged |-> FALSE, start |-> 0, end |-> 0]

\* the opts the handler passes to GetObject: a suffix range sets none
RangeOpts(r) ==
    IF ~r.hasRange THEN NoOpts
    ELSE IF r.start < 0 /\ r.end = -1 THEN NoOpts
    ELSE [ranged |-> TRUE, start |-> r.start, end |-> r.end]

\* the bytes the object store streams for opts: the whole object, or the
\* bytes start..end with the end cut at the object's size
GetObject(body, opts) ==
    IF ~opts.ranged THEN body
    ELSE LET last == IF opts.end = -1 \/ opts.end > Len(body) - 1
                     THEN Len(body) - 1 ELSE opts.end
         IN  IF opts.start > last THEN <<>> ELSE SubSeq(body, opts.start + 1, last + 1)

\* c.SendStream(obj) after Content-Length was set: the response carries the
\* whole stream, or as many of its bytes as Content-Length announces
Framings == {"stream", "length"}

SendStream(stream, contentLength, framing) ==
    IF framing = "length" /\ contentLength < Len(stream)
    THEN SubSeq(stream, 1, IF contentLength < 0 THEN 0 ELSE contentLength)
    ELSE stream

\* an answer of the proxy: Content-Range is <<>> or <<a, b, total>>
ProxyAnswer(branch, status, contentLength, contentRange, body) ==
    [branch |-> branch, status |-> status, contentLength |-> contentLength,
     contentRange |-> contentRange, body |-> body]

\* what the origin may answer to the forwarded request
OriginAnswers ==
    { ProxyAnswer("origin", 200, <<1>>, <<>>, <<"U">>),
      ProxyAnswer("origin", 206, <<1>>, <<0, 0, 1>>, <<"U">>),
      ProxyAnswer("origin", 416, <<>>, <<>>, <<>>) }

\* processVideoProxy(params) with the Range header h
processVideoProxy(params, h, framing, origin) ==
    IF params.CustomObjectKey # <<>> /\ cfg.s3
    THEN LET r == parseRangeHeader(h)
             obj == objs.loc[params.CustomObjectKey]
         IN  IF r.err THEN ProxyAnswer("s3", 416, <<>>, <<>>, <<>>)
             ELSE IF obj = NoObject THEN ProxyAnswer("s3", 500, <<>>, <<>>, <<>>)
             ELSE LET size == Len(obj[1].body)
                      stream == GetObject(obj[1].body, RangeOpts(r))
                      start == IF r.start < 0
                               THEN (IF 0 - r.start > size THEN 0 ELSE size - (0 - r.start))
                               ELSE r.start
                      end == IF r.start < 0 THEN size - 1
                             ELSE IF r.end = -1 THEN size - 1
                             ELSE r.end
                  IN  IF h # NoRange /\ r.hasRange
                      THEN IF start < 0 \/ start >= size \/ start > end
                           THEN ProxyAnswer("s3", 416, <<>>, <<>>, <<>>)
                           ELSE ProxyAnswer("s3", 206, <<end - start + 1>>,
                                            <<start, end, size>>,
                                            SendStream(stream, end - start + 1, framing))
                      ELSE ProxyAnswer("s3", 200, <<size>>, <<>>,
                                       SendStream(stream, size, framing))
    ELSE IF params.Url = <<>> THEN ProxyAnswer("origin", 500, <<>>, <<>>, <<>>)
    ELSE origin

\* the contexts admission hands to the proxy: a URL, a location that holds
\* the video, a location that holds nothing
ProxyParams ==
    { [Url |-> VideoUrl, CustomObjectKey |-> <<>>],
      [Url |-> <<>>, CustomObjectKey |-> <<"a">>],
      [Url |-> <<>>, CustomObjectKey |-> <<"b">>] }

WireNumbers == { Num(n) : n \in 0..MaxOffset } \cup { NaN, NoText }

\* the Range headers tried: none, one range of every shape (a suffix range
\* of at least one byte), two ranges, "bytes=" alone, and a unit other than
\* bytes
RangeHeaders ==
    { NoRange }
    \cup { [unit |-> "bytes", ranges |-> << [first |-> f, last |-> l] >>] :
              f \in WireNumbers, l \in WireNumbers \ {Num(0)} }
    \cup { [unit |-> "bytes", ranges |-> << [first |-> Num(n), last |-> Num(0)] >>] :
              n \in 0..MaxOffset }
    \cup { [unit |-> "bytes", ranges |-> << [first |-> Num(0), last |-> Num(0)],
                                             [first |-> Num(1), last |-> Num(1)] >>],
            [unit |-> "bytes", ranges |-> <<>>],
            [unit |-> "items", ranges |-> << [first |-> Num(0), last |-> Num(0)] >>] }

\* GET /videos/* after admission
ProxyRequest ==
    /\ \E params \in ProxyParams, h \in RangeHeaders, framing \in Framings,
          origin \in OriginAnswers :
         px' = [done |-> TRUE, params |-> params, h |-> h,
                out |-> processVideoProxy(params, h, framing, origin)]
    /\ UNCHANGED <<uploadVars, calc, adm, san, vu, sideVars, cacheVars>>

ProxyNext == ProxyRequest

\* requests to the video proxy, one at a time
SpecProxy == CacheInit /\ [][ProxyNext]_vars

\* ------------------------------------------------------------------------
\* The middleware chain in front of the read routes (main.go): the HTTP
\* response cache, then the handlers of /videos/preview/* and /videos/*
\* ------------------------------------------------------------------------
\* the route a GET falls under
EdgeFamilies == {"/videos/preview/", "/videos/"}

\* the paths tried after the route prefix: the video URL, the video URL as
\* WebP, the signed location "a", the video URL with a signature that is none
EdgePaths ==
    { << Bare(B64(VideoUrl)) >>,
      << Bare(WebpFlag), Bare(B64(VideoUrl)) >>,
      << Seg("loc", B64(<<"a">>)), Seg("sig", HexMac("k", <<"a">>)) >>,
      << Seg("sig", Junk), Bare(B64(VideoUrl)) >> }

\* the Range headers tried: none, the first two bytes, the next two
EdgeRanges ==
    { NoRange,
      [unit |-> "bytes", ranges |-> << [first |-> Num(0), last |-> Num(1)] >>],
      [unit |-> "bytes", ranges |-> << [first |-> Num(2), last |-> Num(3)] >>] }

\* strings.HasPrefix(c.Path(), "/videos/") && !strings.HasPrefix(c.Path(), "/videos/preview/")
IsProxyPath(q) == q.fam = "/videos/"

\* Next letting every response into the HTTP cache
CacheSkipNever(q) == FALSE

\* cache.Config.Next: the responses the HTTP cache must not store
CacheSkip(q) == IsProxyPath(q)

\* cache.Config.KeyGenerator: the path, for the proxy family followed by "?"
\* and the Range header (range is <<>> where the key has no "?")
KeyGenerator(q) ==
    IF IsProxyPath(q)
    THEN [path |-> <<q.fam, q.parts>>, range |-> <<q.h>>]
    ELSE [path |-> <<q.fam, q.parts>>, range |-> <<>>]

\* the ImageContext the preview handler works on: no transformation but
\* WebP, the first frame
PreviewParams(ctx) ==
    [kind |-> "preview", Url |-> ctx.Url, CustomObjectKey |-> ctx.CustomObjectKey,
     Quality |-> ctx.Quality, Width |-> 0, Height |-> 0, Scale |-> 0, Interpolation |-> 5,
     Webp |-> ctx.Webp, FramePosition |-> "first"]

\* the cacheKey of the GET q in the preview handler
EdgeKey(q) == cacheKey(Identifier(PreviewParams(q.ctx)), PreviewParams(q.ctx))

\* what is kept of a GET that has left the chain
Logged(q) ==
    [fam |-> q.fam, parts |-> q.parts, query |-> q.query, h |-> q.h, trace |-> q.trace,
     wb |-> q.wb, resp |-> q.resp]

\* what no step of the chain touches
edgeRest == <<uploadVars, calc, adm, san, px, vu, uv, bl, fnVars, rd, nreads>>

\* the GET q moves on to pc with the steps ev done
Step(q, pc, ev) == [q EXCEPT !.pc = pc, !.trace = @ \o ev]

\* a GET arrives and enters the cache middleware
EdgeArrive ==
    /\ ed.rq.pc = "idle"
    /\ ed.n < MaxEdgeRequests
    /\ \E fam \in EdgeFamilies, parts \in EdgePaths, h \in EdgeRanges :
         ed' = [ed EXCEPT !.n = @ + 1,
                          !.rq = [IdleRq EXCEPT !.pc = "cache", !.fam = fam,
                                                !.parts = parts, !.h = h]]
    /\ UNCHANGED <<edgeRest, mem, heap, bufs, pooled, objs, jobs, served, stored>>

\* the cache middleware looks its key up: an entry answers the request, and
\* the chain ends there
EdgeCacheLookup ==
    /\ ed.rq.pc = "cache"
    /\ LET q == ed.rq
           hits == { e \in ed.hc : e.key = KeyGenerator(q) }
       IN  IF hits # {}
           THEN \E e \in hits :
                  ed' = [ed EXCEPT !.rq = IdleRq,
                                   !.log = Append(@, Logged([Step(q, "idle", <<"http:hit">>)
                                                               EXCEPT !.resp = e.resp]))]
           ELSE ed' = [ed EXCEPT !.rq = Step(q, "admit", <<"http:miss">>)]
    /\ UNCHANGED <<edgeRest, mem, heap, bufs, pooled, objs, jobs, served, stored>>

\* handleVideoPreviewRequest / handleVideoProxyRequest: admission
EdgeAdmit ==
    /\ ed.rq.pc = "admit"
    /\ ed.rq.fam \in EdgeFamilies
    /\ LET q == ed.rq
           out == ProcessImageContextFromPath(q.parts)
       IN  IF ~out.ok
           THEN ed' = [ed EXCEPT !.rq = [Step(q, "store", <<"admit">>)
                                           EXCEPT !.resp = EdgeResp(out.status, "text/plain", <<>>, <<>>)]]
           ELSE ed' = [ed EXCEPT !.rq = [Step(q, IF IsProxyPath(q) THEN "proxy" ELSE "mem",
                                              <<"admit">>)
                                           EXCEPT !.ctx = out.ctx]]
    /\ UNCHANGED <<edgeRest, mem, heap, bufs, pooled, objs, jobs, served, stored>>

\* processVideoProxy: the stream for the Range header of this request
EdgeProxy ==
    /\ ed.rq.pc = "proxy"
    /\ \E framing \in Framings, origin \in OriginAnswers :
         LET q == ed.rq
             out == processVideoProxy(q.ctx, q.h, framing, origin)
         IN  ed' = [ed EXCEPT !.rq = [Step(q, "store", <<"proxy">>)
                                        EXCEPT !.resp = EdgeResp(out.status, "", out.contentRange,
                                                                 out.body)]]
    /\ UNCHANGED <<edgeRest, mem, heap, bufs, pooled, objs, jobs, served, stored>>

\* the handler going to the source whenever the memory cache has missed
AfterMemMissToSource(q) == "source"

\* processVideoPreview after the memory cache has missed: "Try S3 cache if
\* enabled", first at the location if the request names one
AfterMemMiss(q) ==
    IF ~cfg.s3 THEN "source"
    ELSE IF q.ctx.CustomObjectKey # <<>> THEN "s3loc"
    ELSE "s3fp"

\* processVideoPreview: cache.Get(cacheKey)
EdgeMem ==
    /\ ed.rq.pc = "mem"
    /\ LET q == ed.rq
           k == EdgeKey(q)
       IN  IF q.ctx.Url = <<>> /\ q.ctx.CustomObjectKey = <<>>
           THEN /\ ed' = [ed EXCEPT !.rq = [Step(q, "store", <<>>)
                                              EXCEPT !.resp = EdgeResp(400, "text/plain", <<>>, <<>>)]]
                /\ UNCHANGED served
           ELSE IF mem[k] # <<>>
           THEN /\ ed' = [ed EXCEPT !.rq = [Step(q, "store", <<"mem:hit">>)
                                              EXCEPT !.resp = EdgeResp(200, mem[k][1].ContentType, <<>>,
                                                                       Bytes(mem[k][1].Body))]]
                /\ Respond(k, Bytes(mem[k][1].Body), mem[k][1].ContentType)
           ELSE /\ ed' = [ed EXCEPT !.rq = Step(q, AfterMemMiss(q), <<"mem:miss">>)]
                /\ UNCHANGED served
    /\ UNCHANGED <<edgeRest, mem, heap, bufs, pooled, objs, jobs, stored>>

\* processVideoPreview: s3cache.GetAtLocation(params.CustomObjectKey)
EdgeS3Loc ==
    /\ ed.rq.pc = "s3loc"
    /\ LET q == ed.rq
           k == EdgeKey(q)
           atLoc == objs.loc[q.ctx.CustomObjectKey]
       IN  IF atLoc # NoObject
           THEN /\ ed' = [ed EXCEPT !.rq = [Step(q, "store", <<"s3:loc:hit">>)
                                              EXCEPT !.resp = EdgeResp(200, atLoc[1].ct, <<>>,
                                                                       atLoc[1].body)]]
                /\ Respond(k, atLoc[1].body, atLoc[1].ct)
           ELSE /\ ed' = [ed EXCEPT !.rq = Step(q, "s3fp", <<"s3:loc:miss">>)]
                /\ UNCHANGED served
    /\ UNCHANGED <<edgeRest, mem, heap, bufs, pooled, objs, jobs, stored>>

\* processVideoPreview: s3cache.Get(cacheKey), a hit also filling the memory
\* cache
EdgeS3Fp ==
    /\ ed.rq.pc = "s3fp"
    /\ LET q == ed.rq
           k == EdgeKey(q)
           val == objs.fp[k]
       IN  IF val # NoObject
           THEN /\ ed' = [ed EXCEPT !.rq = [Step(q, "store", <<"s3:fp:hit">>)
                                              EXCEPT !.resp = EdgeResp(200, val[1].ct, <<>>,
                                                                       val[1].body)]]
                /\ SetWithTTL(k, Own(val[1].body), val[1].ct)
                /\ Respond(k, val[1].body, val[1].ct)
           ELSE /\ ed' = [ed EXCEPT !.rq = Step(q, "source", <<"s3:fp:miss">>)]
                /\ UNCHANGED <<mem, stored, served>>
    /\ UNCHANGED <<edgeRest, heap, bufs, pooled, objs, jobs>>

\* processVideoPreview: the source is checked to be a video (StatObject of
\* the location, or GetContentType of the URL) and the frame is extracted
EdgeSource ==
    /\ ed.rq.pc = "source"
    /\ LET q == ed.rq
           fromLoc == q.ctx.CustomObjectKey # <<>> /\ cfg.s3
           atLoc == IF q.ctx.CustomObjectKey # <<>> THEN objs.loc[q.ctx.CustomObjectKey]
                    ELSE NoObject
           refuse(status) ==
               ed' = [ed EXCEPT !.rq = [Step(q, "store", <<"source">>)
                                          EXCEPT !.resp = EdgeResp(status, "text/plain", <<>>, <<>>)]]
           extract(video) ==
               ed' = [ed EXCEPT !.rq = [Step(q, "encode", <<"source", "extract">>)
                                          EXCEPT !.frame = extractFrameFromPosition(video, "first")]]
       IN  IF fromLoc /\ atLoc = NoObject THEN refuse(404)
           ELSE IF fromLoc /\ ~IsVideoMime(atLoc[1].ct) THEN refuse(403)
           ELSE IF fromLoc THEN extract(atLoc[1].body)
           ELSE IF q.ctx.Url = <<>> THEN
               ed' = [ed EXCEPT !.rq = [Step(q, "store", <<>>)
                                          EXCEPT !.resp = EdgeResp(400, "text/plain", <<>>, <<>>)]]
           ELSE IF q.ctx.Url # VideoUrl THEN refuse(403)
           ELSE extract(<<"U">>)
    /\ UNCHANGED <<edgeRest, mem, heap, bufs, pooled, objs, jobs, served, stored>>

\* processVideoPreview: the frame is encoded into a pooled buffer,
\* buf.Bytes() goes into the memory cache, and the object-store write of a
\* copy is started
EdgeEncode ==
    /\ ed.rq.pc = "encode"
    /\ \E b \in BufIds, a \in ArrIds :
         LET q == ed.rq
             p == PreviewParams(q.ctx)
             k == EdgeKey(q)
             data == EncodedBody(p, q.frame)
             ct == IF p.Webp THEN "image/webp" ELSE "image/jpeg"
         IN  /\ GetBuffer(b)
             /\ pooled' = pooled \ {b}
             /\ BufferWrite(b, a, data)
             /\ mem' = [mem EXCEPT ![k] = << [Body |-> BufBytes(a, Len(data)),
                                              ContentType |-> ct] >>]
             /\ stored' = [stored EXCEPT ![k] = << [body |-> data, ct |-> ct] >>]
             /\ jobs' = jobs \cup WriteBack(p, k, data, ct)
             /\ ed' = [ed EXCEPT !.rq = [Step(q, "send",
                                              IF WriteBack(p, k, data, ct) # {}
                                              THEN <<"encode", "writeback">> ELSE <<"encode">>)
                                           EXCEPT !.buf = b, !.len = Len(data),
                                                  !.resp = EdgeResp(0, ct, <<>>, <<>>)]]
    /\ UNCHANGED <<edgeRest, objs, served>>

\* how the write this request has started stands
WriteBackState(q) ==
    LET p == PreviewParams(q.ctx)
        k == EdgeKey(q)
        data == EncodedBody(p, q.frame)
        mine == { j \in jobs : j.fp = k /\ j.loc = p.CustomObjectKey }
        at == IF p.CustomObjectKey # <<>> THEN objs.loc[p.CustomObjectKey] ELSE objs.fp[k]
    IN  IF ~cfg.s3 THEN "none"
        ELSE IF mine # {} THEN "pending"
        ELSE IF at # NoObject /\ at[1].body = data THEN "stored"
        ELSE "failed"

\* processVideoPreview: c.Send(buf.Bytes()), and the deferred pool.PutBuffer
EdgeSend ==
    /\ ed.rq.pc = "send"
    /\ LET q == ed.rq
           body == Bytes(BufBytes(bufs[q.buf].arr, q.len))
       IN  /\ ed' = [ed EXCEPT !.rq = [Step(q, "store", <<"send">>)
                                         EXCEPT !.resp = EdgeResp(200, q.resp.ct, <<>>, body),
                                                !.wb = WriteBackState(q), !.buf = 0]]
           /\ Respond(EdgeKey(q), body, q.resp.ct)
           /\ pooled' = pooled \cup {q.buf}
    /\ UNCHANGED <<edgeRest, mem, heap, bufs, objs, jobs, stored>>

\* back in the cache middleware after c.Next(): the response is stored
\* under the key unless Next says not to
EdgeStore ==
    /\ ed.rq.pc = "store"
    /\ LET q == ed.rq
       IN  IF CacheSkip(q)
           THEN ed' = [ed EXCEPT !.rq = IdleRq,
                                 !.log = Append(@, Logged(q))]
           ELSE ed' = [ed EXCEPT !.rq = IdleRq,
                                 !.log = Append(@, Logged(Step(q, "idle", <<"http:store">>))),
                                 !.hc = { e \in @ : e.key # KeyGenerator(q) }
                                        \cup { [key |-> KeyGenerator(q), resp |-> q.resp] }]
    /\ UNCHANGED <<edgeRest, mem, heap, bufs, pooled, objs, jobs, served, stored>>

\* an entry of the HTTP cache reaching its Expiration of ten minutes
EdgeExpire ==
    /\ \E e \in ed.hc : ed' = [ed EXCEPT !.hc = @ \ {e}]
    /\ UNCHANGED <<edgeRest, mem, heap, bufs, pooled, objs, jobs, served, stored>>

EdgeNext ==
    \/ EdgeArrive
    \/ EdgeCacheLookup
    \/ EdgeAdmit
    \/ EdgeProxy
    \/ EdgeMem
    \/ EdgeS3Loc
    \/ EdgeS3Fp
    \/ EdgeSource
    \/ EdgeEncode
    \/ EdgeSend
    \/ EdgeStore
    \/ EdgeExpire
    \/ S3PutDone
    \/ CacheEvict

\* GETs of the video routes passing the middleware chain, one at a time
SpecEdge == CacheInit /\ [][EdgeNext]_vars

\* the query strings tried on GET /image: url, signature, quality, webp
LegacyQueries ==
    { [url |-> u, signature |-> g, quality |-> q, webp |-> w] :
        u \in Urls, g \in { Empty, Junk, HexMac("k", <<"u">>) },
        q \in { NoText, Num(50) }, w \in { "", "true" } }

\* GET /image?url=...: the request enters the cache middleware
LegacyArrive ==
    /\ ed.rq.pc = "idle"
    /\ ed.n < MaxEdgeRequests
    /\ \E query \in LegacyQueries :
         ed' = [ed EXCEPT !.n = @ + 1,
                          !.rq = [IdleRq EXCEPT !.pc = "cache", !.fam = "/image",
                                                !.query = << query >>]]
    /\ UNCHANGED <<edgeRest, mem, heap, bufs, pooled, objs, jobs, served, stored>>

\* what the origin answers for the URL of an admitted image read
LegacySource == [header |-> ImageType, body |-> Raw("b1")]

\* handleImageRequestLegacy: admission of the query, then
\* processImageResponse with its memory cache
LegacyImage ==
    /\ ed.rq.pc = "admit"
    /\ ed.rq.fam = "/image"
    /\ LET q == ed.rq
           query == q.query[1]
           out == ProcessImageContext(query.url, query.signature, Empty, query.quality,
                                      query.webp)
           params == [Url |-> out.ctx.Url, Quality |-> out.ctx.Quality, Width |-> 0,
                      Height |-> 0, Scale |-> 0, Interpolation |-> 5, Webp |-> out.ctx.Webp]
           key == cacheKey(params.Url, params)
           ans == FetchAndProcess(params, TRUE, LegacySource, TRUE)
           answer(status, ct, body) ==
               ed' = [ed EXCEPT !.rq = [Step(q, "store", <<"admit">>)
                                          EXCEPT !.resp = EdgeResp(status, ct, <<>>, body)]]
       IN  IF ~out.ok
           THEN answer(out.status, "text/plain", <<>>) /\ UNCHANGED im
           ELSE IF CacheEntry(key) # {}
           THEN (\E e \in CacheEntry(key) : answer(200, e.ct, e.body)) /\ UNCHANGED im
           ELSE /\ answer(ans.status, ans.ct, ans.body)
                /\ im' = [im EXCEPT !.cache = IF ans.store
                                              THEN ImageCacheSet(key, ans.body, ans.ct)
                                              ELSE @]
    /\ UNCHANGED <<uploadVars, calc, adm, san, px, vu, uv, bl, fx, iu, puts, rd, nreads>>
    /\ UNCHANGED <<mem, heap, bufs, pooled, objs, jobs, served, stored>>

LegacyNext ==
    \/ LegacyArrive
    \/ EdgeCacheLookup
    \/ LegacyImage
    \/ EdgeStore
    \/ EdgeExpire

\* GETs of the query-form image route passing the middleware chain
SpecLegacy == CacheInit /\ [][LegacyNext]_vars

\* s3cache.GetAtLocation yielding nothing although the object is there:
\* GetObject or the reading of the object has failed, which the handler
\* takes for a miss
EdgeS3LocFails ==
    /\ ed.rq.pc = "s3loc"
    /\ objs.loc[ed.rq.ctx.CustomObjectKey] # NoObject
    /\ ed' = [ed EXCEPT !.rq = Step(ed.rq, "s3fp", <<"s3:loc:miss">>)]
    /\ UNCHANGED <<edgeRest, mem, heap, bufs, pooled, objs, jobs, served, stored>>

EdgeFaultsNext == EdgeNext \/ EdgeS3LocFails

\* the same chain with reads of the object store that may fail
SpecEdgeFaults == CacheInit /\ [][EdgeFaultsNext]_vars

\* ------------------------------------------------------------------------
\* Claims about the upload coordinator
\* ------------------------------------------------------------------------
\* the stored record of the session that init gave the token tok, if it is
\* still retrievable
LiveWithToken(tok) ==
    { redis[id][1].data : id \in {i \in Times : RedisLive(redis, i)
                                               /\ redis[i][1].data.UploadToken = tok} }

\* how often x occurs in the sequence s
Count(x, s) == Cardinality({k \in 1..Len(s) : s[k] = x})

\* C1: once a part upload for index i has answered 200, i is in
\* uploaded_parts of its session in every later state, as long as the
\* session is retrievable: no concurrent part upload removes the mark.
C1_AckedPartsStayMarked ==
    \A a \in acked : \A info \in LiveWithToken(a[1]) : InSeq(a[2], info.UploadedParts)

\* C5: the time-to-live handed to the state store never ends after
\* min(expires_at, created_at + 24h), at init and at every rewrite of the
\* record by a part upload.
C5_TtlWithinDayAndDeadline ==
    \A id \in Times :
        redis[id] # <<>> =>
            redis[id][1].until <= Min(redis[id][1].data.ExpiresAt,
                                      redis[id][1].data.CreatedAt + UploadTTL)

\* C6: no index occurs more than once in uploaded_parts, and an index whose
\* upload has answered 200 (once or several times) occurs exactly once.
C6_IndexExactlyOnce ==
    /\ \A id \in Times :
          redis[id] # <<>> =>
              \A i \in 0..MaxParts : Count(i, redis[id][1].data.UploadedParts) <= 1
    /\ \A a \in acked : \A info \in LiveWithToken(a[1]) :
          Count(a[2], info.UploadedParts) = 1

\* the session stored under the upload id that request r names
Addressed(r) == GetUploadInfo(req[r].uploadID)

\* C7: a part write for a session S - the object stored at S's part key, the
\* index marked in S's record - is made only by a request that presented
\* the upload token init generated for S.
C7_WritesNeedSessionToken ==
    [][\A r \in Req :
         /\ (req[r].pc = "put" /\ req'[r].pc = "markGet" /\ Addressed(r) # <<>>
                /\ Addressed(r)[1].Location = req[r].loc)
              => Addressed(r)[1].UploadToken = req[r].token
         /\ (req[r].pc = "markSet" /\ req'[r].pc = "complete")
              => req[r].minfo[1].UploadToken = req[r].token]_vars

\* what C8 calls a part upload that must be rejected: the session is
\* missing or expired, the index is out of range, or the byte count is not
\* parts[index].size
BadPart(uploadID, partIndex, file) ==
    LET got == GetUploadInfo(uploadID)
    IN  \/ got = <<>>
        \/ now > got[1].ExpiresAt
        \/ partIndex < 0
        \/ partIndex >= got[1].PartsCount
        \/ (file # <<>> /\ file[1] # got[1].Parts[partIndex + 1].size)

C23_UploadDisabledIs503 ==
    /\ (resp.kind \in {"init", "part"} /\ ~cfg.UploadingEnabled) => resp.status = 503
    /\ (resp.kind \in {"init", "part"} /\ cfg.UploadingEnabled /\ ~cfg.tracker)
          => resp.status = 503
    /\ (vu.done /\ ~cfg.UploadingEnabled) => vu.status = 503

\* an init call that passes every check made before the size limit and
\* asks for more than MAX_VIDEO_SIZE
InitOverLimit(in) ==
    /\ cfg.UploadingEnabled /\ cfg.tracker
    /\ in[1] = cfg.Token
    /\ in[2] # <<>> /\ now <= in[2][1]
    /\ in[3] # ""
    /\ in[4] # <<>> /\ in[4][1] > cfg.MaxVideoSize * MiB

\* a part upload that passes every other check of the handler and whose
\* byte count differs from parts[index].size
PartSizeMismatch(uploadID, partIndex, file, token) ==
    LET got == GetUploadInfo(uploadID)
    IN  /\ PartChecksNoSize(got, partIndex, file, token) = 0
        /\ file[1] # got[1].Parts[partIndex + 1].size

\* a single upload that passes validation on a server with an object store
\* and carries a file larger than MAX_VIDEO_SIZE
VideoOverLimit(deadlineStr, locationEncoded, signature, file) ==
    /\ ValidateVideoUpload(deadlineStr, locationEncoded, signature).ok
    /\ cfg.s3
    /\ file # <<>> /\ file[1].size > cfg.MaxVideoSize * MiB

\* C24: an upload whose size exceeds the configured limit - announced to
\* init or carried by the single upload - and a part upload whose byte
\* count differs from parts[index].size are answered 413.
C24_TooLargeIs413 ==
    [][/\ \A in \in InitInputs :
            (InitOverLimit(in) /\ MultipartUploadInit(in[1], in[2], in[3], in[4], in[5], in[6]))
            => resp'.status = 413
       /\ \A uploadID \in Times, partIndex \in 0..MaxParts,
             file \in {<<n>> : n \in 1..MaxTotal}, token \in Tokens :
            (PartSizeMismatch(uploadID, partIndex, file, token)
               /\ PartValidate(1, uploadID, partIndex, file, token))
            => resp'.status = 413
       /\ \A deadlineStr \in DeadlineTexts, locationEncoded \in LocationTexts,
             signature \in UploadSignatures, file \in UploadFiles :
            (VideoOverLimit(deadlineStr, locationEncoded, signature, file)
               /\ VideoUpload(deadlineStr, locationEncoded, signature, file))
            => vu'.status = 413]_vars

\* C9: every init call answered 200 returned an upload_id that no other
\* init call returned.
C9_UploadIdsUnique ==
    \A a \in initLog : \A b \in initLog : a[2] # b[2] => a[1] # b[1]

\* the record of the session id as the state store last received it
SessionRecord(id) == redis[id][1].data

Given(a, keys, queryText) ==
    IF a.form = "path"
    THEN { a.parts[k].val : k \in { j \in 1..Len(a.parts) :
                                      a.parts[j].colon /\ a.parts[j].key \in keys } } \ {Empty}
    ELSE {queryText} \ {Empty}

NamesLocation(a) == Given(a, {"loc", "location"}, a.location) # {}

SignaturesOf(a) == Given(a, {"sig", "signature"}, a.signature)

\* the message of the signing scheme of a context: URL+location when it has
\* a URL, location-only when it has none
SchemeMessage(ctx) ==
    IF ctx.Url # <<>> THEN ctx.Url \o <<"|">> \o ctx.CustomObjectKey ELSE ctx.CustomObjectKey

\* the request gives no URL that can be read: none at all in the query form,
\* an encoded URL that does not decode in the path form
UrlUnusable(a) ==
    IF a.form = "path"
    THEN LET lastPart == a.parts[Len(a.parts)]
         IN  ~lastPart.colon /\ lastPart.val.enc = "junk"
    ELSE a.url = <<>>

\* the context carries a custom object key only if the request carried the
\* hex HMAC, under the configured key, of the context's scheme message
KeyOnlyWithSignature ==
    (adm.out.ok /\ adm.out.ctx.CustomObjectKey # <<>>)
    => /\ cfg.HmacKey # ""
       /\ HexMac(cfg.HmacKey, SchemeMessage(adm.out.ctx)) \in SignaturesOf(adm)

\* C3 as stated: custom_object_key is non-empty only with a verified
\* signature, and a request naming a location without a signature is
\* rejected with 403.
C3_LocationUnsignedIs403 ==
    adm.done =>
        /\ KeyOnlyWithSignature
        /\ (NamesLocation(adm) /\ SignaturesOf(adm) = {})
            => (~adm.out.ok /\ adm.out.status = 403)

\* C3, amended: custom_object_key is non-empty only with a verified
\* signature; a request naming a location without a signature is always
\* rejected, with 400 when it gives no readable URL (query form without url,
\* path form whose encoded URL does not decode) and with 403 otherwise.
C3_LocationUnsignedRejected ==
    adm.done =>
        /\ KeyOnlyWithSignature
        /\ (NamesLocation(adm) /\ SignaturesOf(adm) = {})
            => (~adm.out.ok /\ adm.out.status = IF UrlUnusable(adm) THEN 400 ELSE 403)

\* a path-form request with a URL was admitted with a custom object key
C3_Witness ==
    /\ adm.done /\ adm.form = "path"
    /\ adm.out.ok
    /\ adm.out.ctx.CustomObjectKey # <<>>
    /\ adm.out.ctx.Url # <<>>

\* the characters a custom object key may consist of
KeyChars == {"a", "A", "0", "/", "-", "_", "."}

\* the last segment of a path is the encoded URL
EndsInUrl(parts) ==
    LET lastPart == parts[Len(parts)]
    IN  ~lastPart.colon /\ lastPart # Bare(WebpFlag)

\* the source URL a request gives, <<>> if it gives none that can be read
RequestUrl(a) ==
    IF a.form = "query" THEN a.url
    ELSE IF EndsInUrl(a.parts) /\ a.parts[Len(a.parts)].val.enc = "b64"
         THEN a.parts[Len(a.parts)].val.body
    ELSE <<>>

\* the location text a request gives, Empty if it gives none
RequestLocation(a) ==
    IF a.form = "query" THEN a.location
    ELSE IF NamesLocation(a)
         THEN CHOOSE t \in Given(a, {"loc", "location"}, Empty) : TRUE
    ELSE Empty

\* the location decodes to a string that makes a custom object key
LocationReadable(a) ==
    /\ RequestLocation(a).enc = "b64"
    /\ RequestLocation(a).body # <<>>
    /\ Len(RequestLocation(a).body) <= 512
    /\ \A i \in 1..Len(RequestLocation(a).body) : RequestLocation(a).body[i] \in KeyChars
    /\ \A i \in 1..(Len(RequestLocation(a).body) - 1) :
          ~(RequestLocation(a).body[i] = "." /\ RequestLocation(a).body[i + 1] = ".")

\* the custom object key of a readable location: without its leading "/"
RequestKey(a) == TrimLeftSlash(RequestLocation(a).body)

\* the message of the request's signing scheme: URL when no location is
\* given, URL|key when both are given, key when only a location is given
SignedMessage(a) ==
    IF ~NamesLocation(a) THEN RequestUrl(a)
    ELSE IF RequestUrl(a) # <<>> THEN RequestUrl(a) \o <<"|">> \o RequestKey(a)
    ELSE RequestKey(a)

\* the request carries the hex HMAC-SHA256, under HMAC_KEY, of its message
RightlySigned(a) ==
    /\ cfg.HmacKey # ""
    /\ (NamesLocation(a) => LocationReadable(a))
    /\ HexMac(cfg.HmacKey, SignedMessage(a)) \in SignaturesOf(a)

\* the URL and the location of the request can be read: the encoded URL of
\* the path form decodes, the query form has a url, a named location
\* decodes to a valid key, and a request without location has a URL
WellFormed(a) ==
    /\ a.form = "path" => (EndsInUrl(a.parts) =>
                              a.parts[Len(a.parts)].val.enc \in {"b64", ""})
    /\ a.form = "query" => a.url # <<>>
    /\ NamesLocation(a) => LocationReadable(a)
    /\ ~NamesLocation(a) => RequestUrl(a) # <<>>

\* C17 as stated: a signed read request is admitted only if its signature
\* is the hex HMAC-SHA256 under HMAC_KEY of the message of its scheme, and
\* every other signature value is rejected with 403.
C17_WrongSignatureIs403 ==
    (adm.done /\ SignaturesOf(adm) # {}) =>
        /\ adm.out.ok => RightlySigned(adm)
        /\ ~RightlySigned(adm) => (~adm.out.ok /\ adm.out.status = 403)

\* C17, amended: a signed read request is admitted only if its signature
\* is the hex HMAC-SHA256 under HMAC_KEY of the message of its scheme;
\* every other signature value is rejected, with 403 when the URL and the
\* location of the request can be read and with 400 or 403 otherwise.
C17_WrongSignatureRejected ==
    (adm.done /\ SignaturesOf(adm) # {}) =>
        /\ adm.out.ok => RightlySigned(adm)
        /\ ~RightlySigned(adm) =>
              /\ ~adm.out.ok
              /\ adm.out.status \in {400, 403}
              /\ WellFormed(adm) => adm.out.status = 403

\* a path-form request with a location and no URL was admitted on the
\* signature over its key alone
C17_Witness ==
    /\ adm.done /\ adm.form = "path"
    /\ adm.out.ok
    /\ SignaturesOf(adm) = { HexMac(cfg.HmacKey, adm.out.ctx.CustomObjectKey) }
    /\ adm.out.ctx.CustomObjectKey # <<>>
    /\ adm.out.ctx.Url = <<>>

\* the query-form request that gives the values of the path parts: the
\* decoded URL, the location, signature and quality texts, webp=true for
\* the flag
QueryOfPath(parts) ==
    LET a == [form |-> "path", parts |-> parts]
        texts(keys) == { parts[k].val : k \in { j \in 1..Len(parts) :
                                                   parts[j].colon /\ parts[j].key \in keys } }
        one(keys, none) == IF texts(keys) = {} THEN none ELSE CHOOSE t \in texts(keys) : TRUE
    IN  [url |-> RequestUrl(a),
         signature |-> one({"sig", "signature"}, Empty),
         location |-> one({"loc", "location"}, Empty),
         quality |-> one({"q", "quality"}, NoText),
         webp |-> IF \E k \in 1..Len(parts) : parts[k] = Bare(WebpFlag) THEN "true" ELSE ""]

\* C19: a path-form request that gives a source URL gets the admission
\* decision, and when admitted the context (url, custom_object_key,
\* quality, webp), that the query form gives for the same URL, location,
\* signature and transformation values.
C19_PathAndQueryAgree ==
    (adm.done /\ adm.form = "path" /\ RequestUrl(adm) # <<>>) =>
        LET q == QueryOfPath(adm.parts)
            other == ProcessImageContext(q.url, q.signature, q.location, q.quality, q.webp)
        IN  /\ adm.out.ok = other.ok
            /\ adm.out.ok => adm.out.ctx = other.ctx

\* the quality text a request carries, NoText if it carries none
RequestQuality(a) ==
    IF a.form = "query" THEN a.quality
    ELSE LET texts == { a.parts[k].val : k \in { j \in 1..Len(a.parts) :
                           a.parts[j].colon /\ a.parts[j].key \in {"q", "quality"} } }
         IN  IF texts = {} THEN NoText ELSE CHOOSE t \in texts : TRUE

\* the decision on the same request without its quality parameter
WithoutQuality(a) ==
    IF a.form = "query"
    THEN ProcessImageContext(a.url, a.signature, a.location, NoText, a.webp)
    ELSE LET rest == SelectSeq(a.parts,
                         LAMBDA g : ~(g.colon /\ g.key \in {"q", "quality"}))
         IN  ProcessImageContextFromPath(IF rest = <<>> THEN << Bare(Empty) >> ELSE rest)

\* C21: a read request asking for quality 0 or 101 is rejected at
\* admission, in the path form and in the query form, and is never admitted
\* with another quality; a request asking for quality 1 or 100 that is
\* admissible otherwise is admitted with that quality.
C21_QualityBoundsAtAdmission ==
    adm.done =>
        LET q == RequestQuality(adm)
        IN  /\ q \in { Num(0), Num(101) } => ~adm.out.ok
            /\ (q \in { Num(1), Num(100) } /\ WithoutQuality(adm).ok)
                  => (adm.out.ok /\ adm.out.ctx.Quality = q.n)

\* C20: ParsePathParams takes the last segment for the encoded URL exactly
\* when it has no colon and is not "webp"; otherwise the encoded URL is
\* empty and the last segment is processed as a parameter, so that a path
\* with a loc: segment that ends in sig:... or webp is a location-only
\* request.
C20_LastSegmentIsUrlOrParameter ==
    (adm.done /\ adm.form = "path") =>
        LET lastPart == adm.parts[Len(adm.parts)]
        IN  IF EndsInUrl(adm.parts)
            THEN adm.parsed.EncodedURL = lastPart.val
            ELSE /\ adm.parsed.EncodedURL = Empty
                 /\ lastPart = Bare(WebpFlag) => adm.parsed.Webp
                 /\ (lastPart.colon /\ lastPart.key \in {"sig", "signature"})
                       => adm.parsed.Signature = lastPart.val
                 /\ (lastPart.colon /\ lastPart.key \in {"loc", "location"})
                       => adm.parsed.Location = lastPart.val
                 /\ NamesLocation(adm) =>
                       /\ adm.parsed.Location = RequestLocation(adm)
                       /\ adm.out.ok => (adm.out.ctx.Url = <<>>
                                          /\ adm.out.ctx.CustomObjectKey = RequestKey(adm))

\* a path with a loc: segment that ends in webp was admitted as a
\* location-only request with the flag set
C20_Witness ==
    /\ adm.done /\ adm.form = "path"
    /\ adm.parts[Len(adm.parts)] = Bare(WebpFlag)
    /\ NamesLocation(adm)
    /\ adm.out.ok
    /\ adm.out.ctx.Webp
    /\ adm.out.ctx.Url = <<>>
    /\ adm.out.ctx.CustomObjectKey = <<"a">>

\* C16: every key that sanitizeLocation accepts and returns has a length of
\* 1 to 512, consists of the characters A-Z a-z 0-9 / - _ . only, contains
\* neither ".." nor a backslash and does not start with "/".
C16_SanitizedKeyWellFormed ==
    (san.done /\ san.out.ok) =>
        LET key == san.out.val
        IN  /\ Len(key) >= 1 /\ Len(key) <= 512
            /\ \A i \in 1..Len(key) : key[i] \in KeyChars
            /\ \A i \in 1..(Len(key) - 1) : ~(key[i] = "." /\ key[i + 1] = ".")
            /\ \A i \in 1..Len(key) : key[i] # "\\"
            /\ (key # <<>> => key[1] # "/")

\* C18: POST /videos writes an object only if uploading is enabled,
\* HMAC_KEY is set, the deadline is strictly later than the time of
\* admission, the signature is the HMAC under HMAC_KEY of
\* decimal(deadline) + "|" + location, and the decoded location makes a
\* custom object key of 1 to 512 allowed characters; the object is written
\* at exactly that key.
C18_UploadWritesOnlyAdmitted ==
    (vu.done /\ vu.wrote # <<>>) =>
        LET deadline == ParseInt(vu.deadline)
            decoded == vu.location.body
            key == TrimLeftSlash(decoded)
        IN  /\ cfg.UploadingEnabled
            /\ cfg.HmacKey # ""
            /\ deadline.kind = "num"
            /\ deadline.n > vu.at
            /\ vu.location.enc = "b64"
            /\ Len(key) >= 1 /\ Len(key) <= 512
            /\ \A i \in 1..Len(key) : key[i] \in KeyChars
            /\ \A i \in 1..(Len(key) - 1) : ~(key[i] = "." /\ key[i + 1] = ".")
            /\ vu.signature = HexMac(cfg.HmacKey, Decimal(deadline.n) \o <<"|">> \o key)
            /\ vu.wrote = << key >>
            /\ \E o \in s3 : o.loc = key

\* C22: a single video upload that needs its signature verified while
\* HMAC_KEY is not configured is rejected with status 403.
C22_MissingHmacKeyIs403 ==
    (vu.done /\ cfg.UploadingEnabled /\ cfg.HmacKey = "") => vu.status = 403

\* ------------------------------------------------------------------------
\* Claims about the middleware chain
\* ------------------------------------------------------------------------
Max(a, b) == IF a >= b THEN a ELSE b

\* the frames of the call that carry data
Decodable == { i \in 1..Len(fx.frames) : fx.frames[i].data }

\* the target of the call: half the duration, or the time asked for
Target == IF fx.position.kind = "half" THEN fx.position.n \div 2 ELSE fx.position.n

\* C32: for position half and for a time T the returned frame is a decodable
\* frame whose distance to the target is minimal over all decodable frames
\* of the stream, the earliest of those equally close, whatever the frame
\* spacing and T >= 0, T = 0 and T beyond the end of the video included.
C32_ClosestFrameReturned ==
    (fx.done /\ Decodable # {}) =>
        /\ fx.out.ok
        /\ fx.out.frame \in Decodable
        /\ \A i \in Decodable :
              \/ abs(fx.frames[fx.out.frame].t - Target) < abs(fx.frames[i].t - Target)
              \/ /\ abs(fx.frames[fx.out.frame].t - Target) = abs(fx.frames[i].t - Target)
                 /\ fx.out.frame <= i

\* the latest image read was answered 200 from a fetch of the source
Processed ==
    /\ im.out.status = 200
    /\ ~im.out.cached

\* the media type of the source of the latest image read
SourceType == ParseMediaType(im.out.src.header).type

Unmodified(params) ==
    /\ params.Quality = 100
    /\ ~params.Webp
    /\ params.Width = 0
    /\ params.Height = 0
    /\ params.Scale = 0

C34_UndecodableTypeIs403 ==
    (/\ im.out.status # 0
     /\ ~im.out.cached
     /\ im.out.fetched
     /\ im.out.src.header # ""
     /\ ParseMediaType(im.out.src.header).ok
     /\ SourceType \notin Decoders) =>
        im.out.status = 403

\* C35: a signature that is valid for one signing purpose (URL-only read,
\* URL+location read, location-only read, image upload at a location, video
\* upload of deadline|location) is never accepted for another: no signature
\* admits two requests of different operations under one HMAC_KEY.
C35_SignaturePurposesDisjoint ==
    /\ (ReadSigned /\ UploadSigned) => adm.parsed.Signature # iu.signature
    /\ (ReadSigned /\ VideoSigned) => adm.parsed.Signature # vu.signature
    /\ (UploadSigned /\ VideoSigned) => iu.signature # vu.signature

\* C36: every object the service writes at a key built from a
\* caller-supplied location, the <location>.partN objects of multi-part
\* uploads included, is built from a location that passes sanitizeLocation
\* (allowed characters only, no "..", no backslash, 1 to 512 characters).
C36_PartKeysSanitized ==
    \A o \in s3 : o.part >= 0 => sanitizeLocation(LocationText(o.loc)).ok

\* the session records the state store holds
LiveSessions == { redis[id][1].data : id \in { i \in DOMAIN redis : redis[i] # <<>> } }

\* C39: each index in uploaded_parts of a session has had an object of
\* exactly parts[index].size bytes written at location + ".part" + index
\* with the session's content type; no index is marked before or without
\* its write succeeding.
C39_MarkedPartsWereWritten ==
    \A u \in LiveSessions :
        \A k \in 1..Len(u.UploadedParts) :
            [loc |-> u.Location, part |-> u.UploadedParts[k],
             size |-> u.Parts[u.UploadedParts[k] + 1].size, ct |-> u.ContentType] \in puts

\* C37: serving a video preview never overwrites or alters the source it
\* reads: an object at a location that holds a video has the same bytes and
\* the same content type after every step of the request and of its
\* write-back.
C37_SourceObjectUnaltered ==
    [][\A l \in ReadLocations :
          (objs.loc[l] # NoObject /\ IsVideoMime(objs.loc[l][1].ct))
              => objs'.loc[l] = objs.loc[l]]_vars

\* the GETs that were answered by the HTTP response cache, and those whose
\* response was stored in it
HttpHits ==
    { i \in 1..Len(ed.log) : \E j \in 1..Len(ed.log[i].trace) : ed.log[i].trace[j] = "http:hit" }

HttpStores ==
    { i \in 1..Len(ed.log) : \E j \in 1..Len(ed.log[i].trace) : ed.log[i].trace[j] = "http:store" }

\* C38: a response served from the HTTP response cache is one the receiving
\* request would itself have been admitted to and computed: it was stored
\* for a request that names the same source and carries the same
\* transformation and authorisation parameters, those of the query string
\* included.
C38_CachedResponseForSameRequest ==
    \A i \in HttpHits :
        \E j \in HttpStores :
            /\ j < i
            /\ ed.log[j].resp = ed.log[i].resp
            /\ ed.log[j].fam = ed.log[i].fam
            /\ ed.log[j].parts = ed.log[i].parts
            /\ ed.log[j].query = ed.log[i].query

\* the upload carries a non-empty token equal to the configured one
TokenPresented == iu.token # "" /\ iu.token = cfg.Token

\* the upload carries a location and the hex HMAC of its key under HMAC_KEY
SignaturePresented ==
    /\ cfg.HmacKey # ""
    /\ iu.location # Empty
    /\ DecodeBase64URL(iu.location).ok
    /\ sanitizeLocation(DecodeBase64URL(iu.location).val).ok
    /\ iu.signature = HexMac(cfg.HmacKey, sanitizeLocation(DecodeBase64URL(iu.location).val).val)

\* C40: an image upload is admitted only with a non-empty token equal to
\* APP_TOKEN or with a location whose signature verifies under HMAC_KEY; an
\* upload with neither a token nor a signature, and one with a location, no
\* signature and no such token, is rejected with 403 under every
\* configuration, APP_TOKEN unset included.
C40_UploadNeedsTokenOrSignature ==
    iu.done =>
        /\ iu.out.ok => (TokenPresented \/ SignaturePresented)
        /\ (iu.token = "" /\ iu.signature = Empty) => (~iu.out.ok /\ iu.out.status = 403)
        /\ (iu.location # Empty /\ iu.signature = Empty /\ ~TokenPresented)
            => (~iu.out.ok /\ iu.out.status = 403)

\* the traces of the preview GETs: the one in the chain and those that left
PreviewTraces ==
    (IF ed.rq.fam = "/videos/preview/" THEN { ed.rq.trace } ELSE {})
    \cup { ed.log[i].trace : i \in { j \in 1..Len(ed.log) : ed.log[j].fam = "/videos/preview/" } }

HttpLookups == {"http:hit", "http:miss"}

MemLookups == {"mem:hit", "mem:miss"}

S3Lookups == {"s3:loc:hit", "s3:loc:miss", "s3:fp:hit", "s3:fp:miss"}

Hits == {"http:hit", "mem:hit", "s3:loc:hit", "s3:fp:hit"}

SourceSteps == {"source", "extract", "encode", "writeback", "send"}

\* in the trace t every step of later has a step of earlier before it
Precedes(t, earlier, later) ==
    \A j \in 1..Len(t) : t[j] \in later => \E i \in 1..(j - 1) : t[i] \in earlier

\* in the trace t no step of later follows a step of earlier
NeverAfter(t, earlier, later) ==
    \A i \in 1..Len(t), j \in 1..Len(t) : (i < j /\ t[i] \in earlier) => t[j] \notin later

\* the memory cache before the object-store cache, the source only after
\* the tiers have missed, and nothing of a later tier after a hit
TiersInOrder(t) ==
    /\ Precedes(t, {"mem:miss"}, S3Lookups)
    /\ Precedes(t, {"s3:loc:miss"}, {"s3:fp:hit", "s3:fp:miss"})
       \/ ~(\E i \in 1..Len(t) : t[i] \in {"s3:loc:hit", "s3:loc:miss"})
    /\ Precedes(t, {"mem:miss"}, SourceSteps)
    /\ cfg.s3 => Precedes(t, {"s3:fp:miss"}, SourceSteps)
    /\ NeverAfter(t, Hits, HttpLookups \cup MemLookups \cup S3Lookups \cup SourceSteps \cup {"admit"})

SentPreviews ==
    { i \in 1..Len(ed.log) :
        /\ ed.log[i].fam = "/videos/preview/"
        /\ \E j \in 1..Len(ed.log[i].trace) : ed.log[i].trace[j] = "send" }

\* the encoded first frame of the video at the URL, as JPEG or as WebP
Artifact(webp) == EncodeFrame(extractFrameFromPosition(<<"U">>, "first"), webp)

\* C28: the status and body of a read response do not depend on the
\* object-store write-back: the answer to a preview that was encoded is 200
\* with the complete encoded frame whether the write has succeeded, has
\* failed or is still running when the response is sent, and what is handed
\* to the write-back (and so what it stores) is the completely encoded
\* artifact.
C28_ResponseIndependentOfWriteBack ==
    /\ \A i \in SentPreviews :
          LET ctx == ProcessImageContextFromPath(ed.log[i].parts).ctx
          IN  /\ ed.log[i].wb \in {"none", "pending", "stored", "failed"}
              /\ ed.log[i].resp = EdgeResp(200, IF ctx.Webp THEN "image/webp" ELSE "image/jpeg",
                                           <<>>, Artifact(ctx.Webp))
    /\ \A i \in SentPreviews, j \in SentPreviews :
          ed.log[i].parts = ed.log[j].parts => ed.log[i].resp = ed.log[j].resp
    /\ \A j \in jobs : j.body = Artifact(j.fp[7])
    /\ \A k \in Fingerprints : objs.fp[k] # NoObject => objs.fp[k][1].body = Artifact(k[7])

\* the same preview was encoded and answered twice with the same response,
\* once with its write-back failed before the response was sent and once
\* with it still running
C28_Witness ==
    \E i \in SentPreviews, j \in SentPreviews :
        /\ ed.log[i].parts = ed.log[j].parts
        /\ ed.log[i].wb = "failed"
        /\ ed.log[j].wb = "pending"
        /\ ed.log[i].resp = ed.log[j].resp
        /\ ed.log[i].resp.status = 200

\* the proxy GETs: the one in the chain and those that left
ProxyGets ==
    (IF ed.rq.fam = "/videos/" THEN { Logged(ed.rq) } ELSE {})
    \cup { ed.log[i] : i \in { j \in 1..Len(ed.log) : ed.log[j].fam = "/videos/" } }

\* the answers processVideoProxy can give to the GET g
ProxyAnswers(g) ==
    { EdgeResp(out.status, "", out.contentRange, out.body) :
        out \in { processVideoProxy(ProcessImageContextFromPath(g.parts).ctx, g.h, framing, origin) :
                    framing \in Framings, origin \in OriginAnswers } }

\* C29: no response to a request of the video proxy family is stored in or
\* served from the HTTP response cache: no entry of the cache has the key of
\* a proxy request, no proxy request is answered by the cache, and every
\* admitted proxy request is answered by processVideoProxy for its own Range
\* header.
C29_ProxyBypassesHttpCache ==
    /\ \A e \in ed.hc : e.key.path[1] # "/videos/" /\ e.key.range = <<>>
    /\ \A g \in ProxyGets :
          /\ \A i \in 1..Len(g.trace) : g.trace[i] \notin {"http:hit", "http:store"}
          /\ (\E i \in 1..Len(g.trace) : g.trace[i] = "proxy") =>
                /\ g.trace = <<"http:miss", "admit", "proxy">>
                /\ g.resp \in ProxyAnswers(g)

\* two proxy requests with the same path and different Range headers have
\* each been answered 206 with their own bytes of the stored video
C29_Witness ==
    \E i \in 1..Len(ed.log), j \in 1..Len(ed.log) :
        /\ ed.log[i].fam = "/videos/" /\ ed.log[j].fam = "/videos/"
        /\ ed.log[i].parts = ed.log[j].parts
        /\ ed.log[i].h # ed.log[j].h
        /\ ed.log[i].resp.status = 206 /\ ed.log[i].resp.range = <<0, 1, Len(VideoBytes)>>
        /\ ed.log[i].resp.body = SubSeq(VideoBytes, 1, 2)
        /\ ed.log[j].resp.status = 206 /\ ed.log[j].resp.range = <<2, 3, Len(VideoBytes)>>
        /\ ed.log[j].resp.body = SubSeq(VideoBytes, 3, 4)

\* C30: the body limit is max(chunk_size + 1 MiB, max_video_size) with
\* uploading enabled and 4 MiB otherwise, so that with uploading enabled a
\* single upload of at most max_video_size and a part of at most chunk_size
\* are not refused for their size.
C30_BodyLimitCoversUploads ==
    bl.done =>
        /\ bl.limit = IF cfg.UploadingEnabled
                      THEN Max(cfg.ChunkSize + 1 * MiB, cfg.MaxVideoSize * MiB)
                      ELSE 4 * MiB
        /\ (cfg.UploadingEnabled
              /\ (bl.size <= cfg.MaxVideoSize * MiB \/ bl.size <= cfg.ChunkSize))
            => bl.accepted

\* ------------------------------------------------------------------------
\* Claims about pool.ValidateUrl
\* ------------------------------------------------------------------------
\* the URL string parses, its scheme is http or https, and its hostname is
\* an entry of the allow-list or glob-matches an entry containing "*"
OriginAllowed(text, origins) ==
    /\ ~text.bad
    /\ ToLower(text.scheme) \in {"http", "https"}
    /\ \E origin \in origins :
          \/ origin = text.host
          \/ (HasStar(origin) /\ Match(origin, text.host))

C26_UrlCacheBoundedAndClearedAtOnce ==
    /\ [](/\ Cardinality(uv.cache) <= urlCacheSize
          /\ \A e \in uv.cache : << e.parsed >> = UrlParse(e.url)
          /\ \A e \in uv.cache : \A f \in uv.cache : e.url = f.url => e = f
          /\ ReadHolders # {} => WriteHolders = {}
          /\ Cardinality(WriteHolders) <= 1
          /\ \A v \in Validators :
                uv.t[v].hit => uv.t[v].parsed = UrlParse(uv.t[v].url))
    /\ [][(\E e \in uv.cache : \A f \in uv'.cache : f.url # e.url)
            => /\ uv'.cache = {}
               /\ Cardinality(uv.cache) = urlCacheSize
               /\ ReadHolders = {}
               /\ \E v \in Validators :
                     WriteHolders = {v} /\ uv.t[v].pc = "evict" /\ uv'.t[v].pc = "insert"]_vars

\* the full cache was emptied and has one entry again while another
\* validation, which missed before the eviction, waits for the write lock
C26_Witness ==
    /\ uv.evicted
    /\ Cardinality(uv.cache) = 1
    /\ \E v \in Validators : uv.t[v].pc = "wlock"
    /\ \E v \in Validators : uv.t[v].pc = "hostname" /\ ~uv.t[v].hit

\* ------------------------------------------------------------------------
\* Claims about the read pipeline
\* ------------------------------------------------------------------------
\* C2: all the 200 answers given to read requests of one fingerprint have
\* the same body and the same content type, whether computed afresh or
\* served from the memory cache or the object-store cache.
C2_SameFingerprintSameOutput ==
    \A k \in Fingerprints : Cardinality(served[k]) <= 1

\* C10: an entry of the memory cache shows, in every state, exactly the
\* bytes and the content type it was stored with, whatever other requests
\* do with the pooled buffers meanwhile.
C10_CachedArtifactImmutable ==
    \A k \in Fingerprints :
        mem[k] # <<>> =>
            /\ stored[k] # <<>>
            /\ Bytes(mem[k][1].Body) = stored[k][1].body
            /\ mem[k][1].ContentType = stored[k][1].ct

\* the fingerprint of the request in slot r
KeyOf(r) == cacheKey(Identifier(rd[r].params), rd[r].params)

\* the request in slot r missed every cache tier, computed, stored its
\* output in the memory cache, started its write-back and answered
Computed(r) == rd[r].pc = "release"

\* C11: when two requests of one fingerprint are in flight together, both
\* missed every tier and both computed, both answered the same bytes; and
\* once no write-back for the fingerprint is pending, the memory cache
\* entry (while it is there) and the object-store cache hold those bytes.
C11_ConcurrentMissesAgree ==
    \A r1 \in Readers : \A r2 \in Readers :
        (r1 # r2 /\ Computed(r1) /\ Computed(r2) /\ KeyOf(r1) = KeyOf(r2)) =>
            LET k == KeyOf(r1)
                out == EncodedBody(rd[r1].params, rd[r1].frame)
            IN  /\ EncodedBody(rd[r2].params, rd[r2].frame) = out
                /\ (\A j \in jobs : j.fp # k) =>
                      /\ mem[k] # <<>> => Bytes(mem[k][1].Body) = out
                      /\ (cfg.s3 /\ rd[r1].params.kind = "preview")
                            => (objs.fp[k] # NoObject /\ objs.fp[k][1].body = out)

\* C15: every 200 answer of the video-preview endpoint has Content-Type
\* image/webp when webp is set and image/jpeg otherwise, whether computed
\* or served from the memory cache, from the object store by fingerprint
\* or from the object store at the caller's location.
C15_PreviewIsEncodedFrame ==
    \A p \in ReadParams :
        p.kind = "preview" =>
            \A a \in served[cacheKey(Identifier(p), p)] :
                a[2] = IF p.Webp THEN "image/webp" ELSE "image/jpeg"

\* ------------------------------------------------------------------------
\* Claims about the video proxy
\* ------------------------------------------------------------------------
\* the object the proxy request names, as a sequence of bytes
ProxyObject == objs.loc[px.params.CustomObjectKey][1].body

\* the bytes a..b of the object, <<>> if there are no such bytes
ObjectBytes(body, a, b) ==
    IF 0 <= a /\ a <= b /\ b <= Len(body) - 1 THEN SubSeq(body, a + 1, b + 1) ELSE <<>>

\* the one range of the header, resolved against an object of size bytes:
\* <<start, end>>
Resolved(h, size) ==
    LET first == h.ranges[1].first
        last == h.ranges[1].last
    IN  IF first = NoText
        THEN << (IF last.n > size THEN 0 ELSE size - last.n), size - 1 >>
        ELSE IF last = NoText THEN << first.n, size - 1 >>
        ELSE << first.n, last.n >>

\* the header is one well-formed byte range
OneRange(h) == h # NoRange /\ ~parseRangeHeader(h).err

\* C12: on the object-store branch a 206 answer carries exactly the bytes
\* start..end that its Content-Range names, end - start + 1 of them, as
\* many as Content-Length says, for the shapes start-end, start- and -N
\* (-N naming the last N bytes); a 200 answer carries the whole object and
\* Content-Length is its size.
C12_RangeBodyMatchesHeaders ==
    (px.done /\ px.out.branch = "s3") =>
        /\ px.out.status = 206 =>
              LET a == px.out.contentRange[1]
                  b == px.out.contentRange[2]
              IN  /\ px.out.body = ObjectBytes(ProxyObject, a, b)
                  /\ Len(px.out.body) = b - a + 1
                  /\ px.out.contentLength = << b - a + 1 >>
                  /\ <<a, b>> = Resolved(px.h, Len(ProxyObject))
        /\ px.out.status = 200 =>
              /\ px.out.body = ProxyObject
              /\ px.out.contentLength = << Len(ProxyObject) >>

\* C13: on the object-store branch a well-formed range that, resolved
\* against the object's size, has start >= size or start > end is answered
\* 416, and every 206 answer has Content-Range a-b/total with
\* 0 <= a <= b <= total - 1 and total the object's size.
C13_ContentRangeWithinObject ==
    (px.done /\ px.out.branch = "s3" /\ objs.loc[px.params.CustomObjectKey] # NoObject) =>
        /\ OneRange(px.h) =>
              LET res == Resolved(px.h, Len(ProxyObject))
              IN  (res[1] >= Len(ProxyObject) \/ res[1] > res[2]) => px.out.status = 416
        /\ px.out.status = 206 =>
              LET a == px.out.contentRange[1]
                  b == px.out.contentRange[2]
                  total == px.out.contentRange[3]
              IN  /\ total = Len(ProxyObject)
                  /\ 0 <= a /\ a <= b /\ b <= total - 1

\* C14: a Range header that lists more than one range is answered 400 by
\* the branch of the proxy that reads the header itself (the object-store
\* branch; the other branch forwards the header to the origin).
C14_MultipleRangesAre400 ==
    (px.done /\ px.out.branch = "s3" /\ px.h.unit = "bytes" /\ Len(px.h.ranges) > 1)
        => px.out.status = 400

\* ------------------------------------------------------------------------
\* Claims about the parts computation
\* ------------------------------------------------------------------------
RECURSIVE SumSizes(_)
SumSizes(parts) == IF parts = <<>> THEN 0 ELSE Head(parts).size + SumSizes(Tail(parts))

\* C4: a session created for total_size > 0 and a positive chunk_size has
\* parts_count = ceil(total_size / chunk_size) >= 1, parts[i].offset =
\* i * chunk_size, every part but the last of size chunk_size, the last of
\* size total_size - (parts_count - 1) * chunk_size, and sizes summing to
\* total_size.
C4_PartsPartitionTotal ==
    (calc.done /\ ~calc.panicked) =>
        LET n == calc.partsCount
            c == calc.chunkSize
            t == calc.totalSize
        IN  /\ n = (t + c - 1) \div c
            /\ n >= 1
            /\ Len(calc.parts) = n
            /\ \A i \in 0..(n - 1) :
                  /\ calc.parts[i + 1].offset = i * c
                  /\ calc.parts[i + 1].size = IF i < n - 1 THEN c ELSE t - (n - 1) * c
            /\ SumSizes(calc.parts) = t

====
